---------------------------- MODULE Spec2Model ----------------------------
(***************************************************************************)
(* A model of the layout core of the mind-map plugin: the coordinate       *)
(* converter (src/src/utils/coordinate-system.ts), the text measurer and   *)
(* its two caches (src/src/utils/TextMeasurer.ts) and the overlap resolver *)
(* of spec.md section 4.4.                                                 *)
(*                                                                         *)
(* Numbers.  The program computes with JavaScript numbers.  The model uses *)
(* integers: a coordinate of the converter is a whole number of layout     *)
(* units and every node height is even, so that nodeHeight / 2 is exact;   *)
(* a length of the text measurer is a whole number of milli-pixels         *)
(* (Px(1) = 1000), in which every product of the code (0.62, 1.2, 1.3,     *)
(* 0.05, 1/2) is exact on the inputs drawn.  Rounding of IEEE doubles is   *)
(* not modelled.                                                           *)
(***************************************************************************)
EXTENDS Integers, Sequences, FiniteSets, TLC

VARIABLES
    \* ---- coordinate converter: one call sequence on drawn arguments
    ccArgs,      \* the arguments drawn: [c1, h1, c2, h2, gap, off]
    ccPc,        \* which conversions have been applied
    ccCanvasY,   \* last result of toCanvasY
    ccLayoutX,   \* last result of toLayoutX
    ccOverlap,   \* results of isOverlapping, both argument orders
    ccGap        \* results of calculateActualGap, both argument orders

VARIABLES
    \* ---- overlap resolver (spec.md 4.4): a positioned tree and one or more calls
    ovParent,        \* node -> parent (0 for the root); nodes are numbered in pre-order
    ovHeight,        \* node -> height
    ovMinGap,        \* the configured minimum gap
    ovCentre,        \* node -> centre (layout space), mutated by the resolver
    ovPc,            \* "idle" | "running" | "returned"
    ovIter,          \* detection passes of the running call that made adjustments
    ovAdjustments,   \* the audit trail of the running / last call
    ovConverged,     \* the flag returned by the last call
    ovCalls,         \* calls made so far
    ovCentreAtCall,  \* the centres when the running / last call began
    ovPrev           \* what the call before the running / last one returned:
                     \* [converged, adjustments (how many)], or NoCall

VARIABLES
    \* ---- text measurer: one TextMeasurer object and the calls made on it
    tmEnv,           \* the environment: [document (is there a DOM), glyph (advance)]
    tmElement,       \* textMeasurementElement is set (not null)
    tmTextCache,     \* textMeasurementCache: key -> [width, height]
    tmDimsCache,     \* nodeDimensionsCache: key -> dimensions
    tmCall,          \* the last call: [op, depth, text], or NoTextCall
    tmRaised,        \* the last call raised
    tmComputed,      \* the last call computed dimensions (no cache hit)
    tmResult,        \* what the last getNodeDimensions returned
    tmCalls,         \* calls made so far
    tmComputations   \* <<depth, text>> -> computations since that text was last
                     \* invalidated (cleared by that text, or destroy)

VARIABLES
    \* ---- node tree: the heap of MindMapNode objects and the calls made on it
    trHeap,      \* index -> [text, level, parent, children, expanded, selected, hovered];
                 \* index 1 is the root of the document
    trCall,      \* the last call: [op, node]
    trReturn,    \* what the last call returned
    trCalls      \* calls made so far

VARIABLES
    \* ---- wrapText with a maximum width: one call on drawn arguments
    wtArgs,      \* [text, maxWidth (milli-pixels), fontSize (pixels)]
    wtPc,        \* "args" | "wrapped"
    wtLines      \* what wrapText returned

VARIABLES
    \* ---- adaptive horizontal step between two depths (spec.md 4.3)
    asSpacing,   \* the adaptiveHorizontalSpacing section in force
    asSource,    \* widths of the nodes at depth d (pixels)
    asTarget,    \* widths of the nodes at depth d + 1 (pixels)
    asStep,      \* the step of the last layout, or NoStep
    asPrevStep   \* the step of the layout before it, or NoStep

VARIABLES
    \* ---- rendering of one node: bounds and transform on drawn arguments
    rnArgs,        \* [layoutX, layoutY, width, height, offsetX, offsetY]
    rnPc,          \* "args" | "bounds" | "transform"
    rnBounds,      \* what getNodeBounds returned
    rnTransform    \* what createTransform returned, and the nodeWidth it was given

VARIABLES
    \* ---- LinkRenderer: one renderer and one link
    lkConfig,      \* the config of the renderer: [lineOffset]
    lkLink,        \* the link: source and target [x, y, depth], the source's width
    lkOffsets,     \* [offsetX, offsetY] of the render call
    lkPc,          \* "new" | "points"
    lkPoints       \* what getLinkConnectionPoints returned

VARIABLES
    \* ---- ConfigManager: one manager after its constructor returned
    cfConfig,          \* this.config: [isMobile, language, layout]
    cfLanguage,        \* this.language
    cfAtConstruction,  \* the value of this.config when the constructor returned
    cfReturn,          \* what the last call returned
    cfCalls            \* calls made so far

VARIABLES
    \* ---- createSubtreeFromMarkdown called on its own
    mdArgs,            \* [markdown, parentLevel]
    mdPc,              \* "ready", "done", "unused"
    mdResult           \* [nodes, rootNode] once done

VARIABLES
    \* ---- ClipboardManager.cutNode on a tree
    ctHeap,            \* the MindMapNode objects
    ctCallbacks,       \* the callbacks given to the constructor
    ctCut,             \* the cutNode call in progress: [node, copySuccess]
    ctPc,              \* "idle", "awaitCopy" (cutNode suspended at its await), "unused"
    ctClipboard,       \* the text on the system clipboard
    ctLog,             \* the callbacks invoked so far, in order
    ctReturn,          \* what the last cutNode resolved to
    ctCalls            \* cutNode and deleteNode calls made so far

VARIABLES
    \* ---- NodeEditor
    edState,           \* this.editingState: [isEditing, currentNode, originalText, editElement]
    edCanvas,          \* this.canvasInteractionEnabled
    edNodes,           \* node.data.text of each node
    edElements,        \* each node's text element: [textContent, contentEditable]
    edLog,             \* onBeforeTextChange / onTextChanged invocations, in order
    edTimers,          \* focus timers set by enableEditing that have not fired
    edCall,            \* the last call
    edCalls            \* calls made so far

ccVars == <<ccArgs, ccPc, ccCanvasY, ccLayoutX, ccOverlap, ccGap>>

ovVars == <<ovParent, ovHeight, ovMinGap, ovCentre, ovPc, ovIter, ovAdjustments,
            ovConverged, ovCalls, ovCentreAtCall, ovPrev>>

tmVars == <<tmEnv, tmElement, tmTextCache, tmDimsCache, tmCall, tmRaised, tmComputed,
            tmResult, tmCalls, tmComputations>>

trVars == <<trHeap, trCall, trReturn, trCalls>>

wtVars == <<wtArgs, wtPc, wtLines>>

asVars == <<asSpacing, asSource, asTarget, asStep, asPrevStep>>

rnVars == <<rnArgs, rnPc, rnBounds, rnTransform>>

lkVars == <<lkConfig, lkLink, lkOffsets, lkPc, lkPoints>>

cfVars == <<cfConfig, cfLanguage, cfAtConstruction, cfReturn, cfCalls>>

mdVars == <<mdArgs, mdPc, mdResult>>

ctVars == <<ctHeap, ctCallbacks, ctCut, ctPc, ctClipboard, ctLog, ctReturn, ctCalls>>

edVars == <<edState, edCanvas, edNodes, edElements, edLog, edTimers, edCall, edCalls>>

vars == <<ccVars, ovVars, tmVars, trVars, wtVars, asVars, rnVars, lkVars, cfVars, mdVars, ctVars, edVars>>

\* what a step of one component leaves alone
OthersThanCoord ==
    <<ovVars, tmVars, trVars, wtVars, asVars, rnVars, lkVars, cfVars, mdVars, ctVars, edVars>>
OthersThanOverlap ==
    <<ccVars, tmVars, trVars, wtVars, asVars, rnVars, lkVars, cfVars, mdVars, ctVars, edVars>>
OthersThanText ==
    <<ccVars, ovVars, trVars, wtVars, asVars, rnVars, lkVars, cfVars, mdVars, ctVars, edVars>>
OthersThanTree ==
    <<ccVars, ovVars, tmVars, wtVars, asVars, rnVars, lkVars, cfVars, mdVars, ctVars, edVars>>
OthersThanWrap ==
    <<ccVars, ovVars, tmVars, trVars, asVars, rnVars, lkVars, cfVars, mdVars, ctVars, edVars>>
OthersThanStep ==
    <<ccVars, ovVars, tmVars, trVars, wtVars, rnVars, lkVars, cfVars, mdVars, ctVars, edVars>>
OthersThanRender ==
    <<ccVars, ovVars, tmVars, trVars, wtVars, asVars, lkVars, cfVars, mdVars, ctVars, edVars>>
OthersThanLink ==
    <<ccVars, ovVars, tmVars, trVars, wtVars, asVars, rnVars, cfVars, mdVars, ctVars, edVars>>
OthersThanConfig ==
    <<ccVars, ovVars, tmVars, trVars, wtVars, asVars, rnVars, lkVars, mdVars, ctVars, edVars>>
OthersThanParse ==
    <<ccVars, ovVars, tmVars, trVars, wtVars, asVars, rnVars, lkVars, cfVars, ctVars, edVars>>
OthersThanCut ==
    <<ccVars, ovVars, tmVars, trVars, wtVars, asVars, rnVars, lkVars, cfVars, mdVars, edVars>>
OthersThanEditor ==
    <<ccVars, ovVars, tmVars, trVars, wtVars, asVars, rnVars, lkVars, cfVars, mdVars, ctVars>>

---------------------------------------------------------------------------
(* Bounds of the coordinate converter's inputs *)

MaxCoord == 3
MaxHalfHeight == 2
MaxGap == 2
MaxOffset == 1

Centres == (0 - MaxCoord)..MaxCoord
Heights == {2 * k : k \in 0..MaxHalfHeight}
Gaps == 0..MaxGap
Offsets == (0 - MaxOffset)..MaxOffset

---------------------------------------------------------------------------
(* CoordinateConverter: pure functions *)

\* nodeHeight / 2; exact, the heights drawn are even
Half(x) == x \div 2

toCanvasX(layoutY, offsetX) == layoutY + offsetX

toCanvasY(layoutX, nodeHeight, offsetY) == layoutX + offsetY - Half(nodeHeight)

toLayoutX_SignSlip(canvasY, nodeHeight, offsetY) == canvasY + offsetY + Half(nodeHeight)

toLayoutX(canvasY, nodeHeight, offsetY) == canvasY - offsetY + Half(nodeHeight)

isOverlapping_NoGap(layoutX1, height1, layoutX2, height2, gap) ==
    LET top1 == layoutX1 - Half(height1)
        bottom1 == layoutX1 + Half(height1)
        top2 == layoutX2 - Half(height2)
        bottom2 == layoutX2 + Half(height2)
    IN  ~(bottom1 <= top2 \/ bottom2 <= top1)

isOverlapping_Strict(layoutX1, height1, layoutX2, height2, gap) ==
    LET top1 == layoutX1 - Half(height1)
        bottom1 == layoutX1 + Half(height1)
        top2 == layoutX2 - Half(height2)
        bottom2 == layoutX2 + Half(height2)
    IN  ~(bottom1 + gap < top2 \/ bottom2 + gap < top1)

isOverlapping(layoutX1, height1, layoutX2, height2, gap) ==
    LET top1 == layoutX1 - Half(height1)
        bottom1 == layoutX1 + Half(height1)
        top2 == layoutX2 - Half(height2)
        bottom2 == layoutX2 + Half(height2)
    IN  ~(bottom1 + gap <= top2 \/ bottom2 + gap <= top1)

calculateActualGap(layoutX1, height1, layoutX2, height2) ==
    LET bottom1 == layoutX1 + Half(height1)
        top2 == layoutX2 - Half(height2)
    IN  top2 - bottom1

---------------------------------------------------------------------------
(* The converter's calls on drawn arguments *)

NoNumber == "none"

CoordStart ==
    /\ ccArgs \in [c1 : Centres, h1 : Heights, c2 : Centres, h2 : Heights,
                   gap : Gaps, off : Offsets]
    /\ ccPc = "args"
    /\ ccCanvasY = NoNumber
    /\ ccLayoutX = NoNumber
    /\ ccOverlap = NoNumber
    /\ ccGap = NoNumber

\* the converter with no call made: the state of the other components' specifications
CoordIdle ==
    /\ ccArgs = [c1 |-> 0, h1 |-> 0, c2 |-> 0, h2 |-> 0, gap |-> 0, off |-> 0]
    /\ ccPc = "idle"
    /\ ccCanvasY = NoNumber
    /\ ccLayoutX = NoNumber
    /\ ccOverlap = NoNumber
    /\ ccGap = NoNumber

\* centre -> top edge
CallToCanvasY ==
    /\ ccPc = "args"
    /\ ccCanvasY' = toCanvasY(ccArgs.c1, ccArgs.h1, ccArgs.off)
    /\ ccPc' = "canvas"
    /\ UNCHANGED <<ccArgs, ccLayoutX, ccOverlap, ccGap>>
    /\ UNCHANGED OthersThanCoord

\* ... and back: top edge -> centre
CallToLayoutXBack ==
    /\ ccPc = "canvas"
    /\ ccLayoutX' = toLayoutX(ccCanvasY, ccArgs.h1, ccArgs.off)
    /\ ccPc' = "canvasBack"
    /\ UNCHANGED <<ccArgs, ccCanvasY, ccOverlap, ccGap>>
    /\ UNCHANGED OthersThanCoord

\* the converse order: c1 read as a top edge, converted to a centre
CallToLayoutX ==
    /\ ccPc = "args"
    /\ ccLayoutX' = toLayoutX(ccArgs.c1, ccArgs.h1, ccArgs.off)
    /\ ccPc' = "layout"
    /\ UNCHANGED <<ccArgs, ccCanvasY, ccOverlap, ccGap>>
    /\ UNCHANGED OthersThanCoord

CallToCanvasYBack ==
    /\ ccPc = "layout"
    /\ ccCanvasY' = toCanvasY(ccLayoutX, ccArgs.h1, ccArgs.off)
    /\ ccPc' = "layoutBack"
    /\ UNCHANGED <<ccArgs, ccLayoutX, ccOverlap, ccGap>>
    /\ UNCHANGED OthersThanCoord

\* isOverlapping and calculateActualGap on the two nodes, in both orders
CallOverlap ==
    /\ ccPc = "args"
    /\ ccOverlap' = [fwd |-> isOverlapping(ccArgs.c1, ccArgs.h1, ccArgs.c2, ccArgs.h2, ccArgs.gap),
                     rev |-> isOverlapping(ccArgs.c2, ccArgs.h2, ccArgs.c1, ccArgs.h1, ccArgs.gap)]
    /\ ccGap' = [fwd |-> calculateActualGap(ccArgs.c1, ccArgs.h1, ccArgs.c2, ccArgs.h2),
                 rev |-> calculateActualGap(ccArgs.c2, ccArgs.h2, ccArgs.c1, ccArgs.h1)]
    /\ ccPc' = "overlap"
    /\ UNCHANGED <<ccArgs, ccCanvasY, ccLayoutX>>
    /\ UNCHANGED OthersThanCoord

CoordNext ==
    \/ CallToCanvasY
    \/ CallToLayoutXBack
    \/ CallToLayoutX
    \/ CallToCanvasYBack
    \/ CallOverlap

---------------------------------------------------------------------------
(* Overlap resolver, spec.md section 4.4 (resolveOverlaps).  The layout    *)
(* calculator that holds it is not among the source files; it is modelled  *)
(* from the specification, on top of the converter's isOverlapping and     *)
(* calculateActualGap.                                                     *)

NumNodes == 4
MaxOvCentre == 3
MaxIterations == 3
MaxResolveCalls == 2

Nodes == 1..NumNodes
OvHeights == {2, 4}
MinGaps == {0, 1}

RECURSIVE Ancestors(_, _)
\* the proper ancestors of node n under parent map p
Ancestors(p, n) == IF p[n] = 0 THEN {} ELSE {p[n]} \cup Ancestors(p, p[n])

\* parent maps of the trees on Nodes numbered in pre-order: node 1 is the root
\* and the parent of n > 1 is n - 1 or one of its ancestors
TreeShapes ==
    {p \in [Nodes -> 0..(NumNodes - 1)] :
        /\ p[1] = 0
        /\ \A n \in Nodes \ {1} : p[n] \in 1..(n - 1)
        /\ \A n \in Nodes \ {1, 2} : p[n] = n - 1 \/ p[n] \in Ancestors(p, n - 1)}

\* a and b are in an ancestor/descendant relationship (or the same node)
Related(p, a, b) == a = b \/ a \in Ancestors(p, b) \/ b \in Ancestors(p, a)

SubtreeOf(p, n) == {m \in Nodes : m = n \/ n \in Ancestors(p, m)}

\* a is above b; with identical centres the one later in pre-order is the lower
Above(c, a, b) == c[a] < c[b] \/ (c[a] = c[b] /\ a < b)

\* the nodes top to bottom
VerticalOrder(c) ==
    [i \in 1..NumNodes |->
        CHOOSE n \in Nodes : Cardinality({m \in Nodes : Above(c, m, n)}) = i - 1]

RECURSIVE PairsFrom(_, _, _)
\* the pairs <<order[i], order[j]>>, i < j, in lexicographic order
PairsFrom(order, i, j) ==
    IF i >= NumNodes THEN <<>>
    ELSE IF j > NumNodes THEN PairsFrom(order, i + 1, i + 2)
    ELSE <<<<order[i], order[j]>>>> \o PairsFrom(order, i, j + 1)

\* which pairs the detector compares: those not in an ancestor/descendant relationship
IsCandidate_SiblingsOnly(p, a, b) == a # b /\ p[a] = p[b]

IsCandidate(p, a, b) == ~Related(p, a, b)

\* one pair: if it violates the minimum gap, push the lower node and its subtree
\* down by minGap - gap and record the adjustment
ResolvePair(p, h, g, st, pair) ==
    LET c == st.centre
        upper == IF Above(c, pair[1], pair[2]) THEN pair[1] ELSE pair[2]
        lower == IF upper = pair[1] THEN pair[2] ELSE pair[1]
    IN  IF IsCandidate(p, upper, lower)
             /\ isOverlapping(c[upper], h[upper], c[lower], h[lower], g)
        THEN LET gap == calculateActualGap(c[upper], h[upper], c[lower], h[lower])
                 delta == g - gap
             IN  [centre |-> [n \in Nodes |->
                                IF n \in SubtreeOf(p, lower) THEN c[n] + delta ELSE c[n]],
                  adj |-> Append(st.adj, [node |-> lower,
                                          previousCenter |-> c[lower],
                                          newCenter |-> c[lower] + delta])]
        ELSE st

RECURSIVE ResolvePairs(_, _, _, _, _, _)
ResolvePairs(p, h, g, st, pairs, k) ==
    IF k > Len(pairs) THEN st
    ELSE ResolvePairs(p, h, g, ResolvePair(p, h, g, st, pairs[k]), pairs, k + 1)

\* one detection pass over all pairs, top to bottom
RunPass(p, h, g, c) ==
    ResolvePairs(p, h, g, [centre |-> c, adj |-> <<>>],
                 PairsFrom(VerticalOrder(c), 1, 2), 1)

\* the loop stops without convergence once this many passes have made adjustments
CapReached_Never(iter) == FALSE

CapReached(iter) == iter >= MaxIterations

\* the flag returned when a pass ends the loop
ConvergedFlag_Always(passAdj) == TRUE

ConvergedFlag(passAdj) == passAdj = <<>>

NoCall == [converged |-> FALSE, adjustments |-> -1]

OverlapStart ==
    /\ ovParent \in TreeShapes
    \* node heights: one node may be taller than the others
    /\ ovHeight \in {h \in [Nodes -> OvHeights] :
                        Cardinality({n \in Nodes : h[n] # 2}) <= 1}
    /\ ovMinGap \in MinGaps
    /\ ovCentre \in [Nodes -> 0..MaxOvCentre]
    \* the root is an ancestor of every node and so in no candidate pair
    /\ ovCentre[1] = 0
    /\ ovHeight[1] = 2
    /\ ovPc = "idle"
    /\ ovIter = 0
    /\ ovAdjustments = <<>>
    /\ ovConverged = FALSE
    /\ ovCalls = 0
    /\ ovCentreAtCall = ovCentre
    /\ ovPrev = NoCall

OverlapIdle ==
    /\ ovParent = <<>>
    /\ ovHeight = <<>>
    /\ ovMinGap = 0
    /\ ovCentre = <<>>
    /\ ovPc = "unused"
    /\ ovIter = 0
    /\ ovAdjustments = <<>>
    /\ ovConverged = FALSE
    /\ ovCalls = 0
    /\ ovCentreAtCall = <<>>
    /\ ovPrev = NoCall

\* resolveOverlaps(root, minGap) is called
ResolveOverlapsCall ==
    /\ ovPc \in {"idle", "returned"}
    /\ ovCalls < MaxResolveCalls
    /\ ovPc' = "running"
    /\ ovCalls' = ovCalls + 1
    /\ ovIter' = 0
    /\ ovAdjustments' = <<>>
    /\ ovCentreAtCall' = ovCentre
    /\ ovPrev' = IF ovPc = "returned"
                 THEN [converged |-> ovConverged, adjustments |-> Len(ovAdjustments)]
                 ELSE NoCall
    /\ UNCHANGED <<ovParent, ovHeight, ovMinGap, ovCentre, ovConverged>>
    /\ UNCHANGED OthersThanOverlap

\* one iteration of its loop: a detection pass; the call returns when the pass
\* made no adjustment (converged) or the iteration cap is reached (flagged)
ResolveOverlapsPass ==
    /\ ovPc = "running"
    /\ \E r \in {RunPass(ovParent, ovHeight, ovMinGap, ovCentre)} :
        \E iter \in {IF r.adj = <<>> THEN ovIter ELSE ovIter + 1} :
           /\ ovCentre' = r.centre
           /\ ovAdjustments' = ovAdjustments \o r.adj
           /\ ovIter' = iter
           /\ IF r.adj = <<>> \/ CapReached(iter)
              THEN /\ ovPc' = "returned"
                   /\ ovConverged' = ConvergedFlag(r.adj)
              ELSE /\ ovPc' = "running"
                   /\ ovConverged' = ovConverged
    /\ UNCHANGED <<ovParent, ovHeight, ovMinGap, ovCalls, ovCentreAtCall, ovPrev>>
    /\ UNCHANGED OthersThanOverlap

OverlapNext ==
    \/ ResolveOverlapsCall
    \/ ResolveOverlapsPass

---------------------------------------------------------------------------
(* TextMeasurer (src/src/utils/TextMeasurer.ts).  A text is a sequence of  *)
(* one-character strings; a length is a whole number of milli-pixels.      *)

MaxDepth == 2
LongTextLen == 18
MaxCalls == 3

Depths == 0..MaxDepth

Px(n) == n * 1000

\* Math.ceil of a non-negative length, to whole pixels
CeilPx(x) == ((x + 999) \div 1000) * 1000

Max(a, b) == IF a >= b THEN a ELSE b

Min(a, b) == IF a <= b THEN a ELSE b

RECURSIVE Repeat(_, _)
Repeat(ch, n) == IF n = 0 THEN <<>> ELSE <<ch>> \o Repeat(ch, n - 1)

\* the texts drawn: empty, whitespace only, one character, one that contains
\* another, a digit, and one long enough to measure wider than 160 px
Texts == {<<>>, <<" ">>, <<"a">>, <<"a", "b">>, <<"1">>, Repeat("a", LongTextLen)}

DigitChars == <<"0", "1", "2", "3", "4", "5", "6", "7", "8", "9">>

RECURSIVE Digits(_)
\* `${n}` of a non-negative integer
Digits(n) == IF n < 10 THEN <<DigitChars[n + 1]>>
             ELSE Digits(n \div 10) \o <<DigitChars[(n % 10) + 1]>>

DigitValue(ch) == (CHOOSE i \in 1..10 : DigitChars[i] = ch) - 1

IsDigit(ch) == \E i \in 1..10 : DigitChars[i] = ch

NaN == "NaN"

RECURSIVE ParseDigits(_, _, _)
ParseDigits(str, i, acc) ==
    IF i > Len(str) \/ ~IsDigit(str[i]) THEN acc
    ELSE ParseDigits(str, i + 1, acc * 10 + DigitValue(str[i]))

\* parseInt: the value of the leading decimal digits
ParseInt(str) == IF Len(str) = 0 \/ ~IsDigit(str[1]) THEN NaN ELSE ParseDigits(str, 1, 0)

\* String.prototype.includes
Includes(str, part) ==
    \E i \in 1..(Len(str) - Len(part) + 1) : SubSeq(str, i, i + Len(part) - 1) = part

RECURSIVE SplitFrom(_, _, _)
\* the pieces of str from position i on: up to the next separator, then the rest
SplitFrom(str, sep, i) ==
    IF \E j \in i..Len(str) : str[j] = sep
    THEN LET j == CHOOSE j \in i..Len(str) :
                      str[j] = sep /\ \A k \in i..(j - 1) : str[k] # sep
         IN  <<SubSeq(str, i, j - 1)>> \o SplitFrom(str, sep, j + 1)
    ELSE <<SubSeq(str, i, Len(str))>>

\* String.prototype.split on a one-character separator
Split(str, sep) == SplitFrom(str, sep, 1)

\* STYLE_CONSTANTS font sizes
ROOT_FONT_SIZE == <<"2", "0", "p", "x">>
LEVEL_1_FONT_SIZE == <<"1", "8", "p", "x">>
DEFAULT_FONT_SIZE == <<"1", "5", "p", "x">>

getFontSizeByDepth(depth) ==
    CASE depth = 0 -> ROOT_FONT_SIZE
      [] depth = 1 -> LEVEL_1_FONT_SIZE
      [] OTHER -> DEFAULT_FONT_SIZE

Bold == <<"b", "o", "l", "d">>
Normal == <<"n", "o", "r", "m", "a", "l">>

IsSpace(ch) == ch \in {" ", "\n", "\t"}

RECURSIVE TrimLeft(_)
TrimLeft(str) == IF Len(str) > 0 /\ IsSpace(str[1]) THEN TrimLeft(Tail(str)) ELSE str

RECURSIVE TrimRight(_)
TrimRight(str) ==
    IF Len(str) > 0 /\ IsSpace(str[Len(str)])
    THEN TrimRight(SubSeq(str, 1, Len(str) - 1)) ELSE str

\* cleanTextContent of utils/mindmap-utils, which is not among the source files:
\* surrounding whitespace is removed (spec.md 4.1: whitespace text becomes empty)
cleanTextContent(text) == TrimRight(TrimLeft(text))

EmptyMap == [k \in {} |-> 0]

\* Map.prototype.set
MapSet(map, key, value) ==
    [k \in (DOMAIN map) \cup {key} |-> IF k = key THEN value ELSE map[k]]

\* Map.prototype.delete of each of the keys
MapDeleteAll(map, keys) == [k \in (DOMAIN map) \ keys |-> map[k]]

\* `${text}-${fontSize}-${fontWeight}`
MeasureKey(text, fontSize, fontWeight) ==
    text \o <<"-">> \o Digits(fontSize) \o <<"-">> \o fontWeight

\* `${depth}-${text}-${text.length}`
NodeKey(depth, text) ==
    Digits(depth) \o <<"-">> \o text \o <<"-">> \o Digits(Len(text))

\* how wide the hidden element renders: a glyph advance in thousandths of the
\* font size (the environment's font)
GlyphRatios == {550, 600}

\* getBoundingClientRect of the hidden element holding `text`
GetBoundingClientRect(env, text, fontSize, fontWeight) ==
    [width |-> Len(text) * fontSize * env.glyph,
     height |-> fontSize * 1200]

\* initializeTextMeasurementElement: document.createElement throws a
\* ReferenceError where there is no document
initializeTextMeasurementElement(env, st) ==
    IF ~st.element
    THEN IF env.document
         THEN [st |-> [st EXCEPT !.element = TRUE], raised |-> FALSE]
         ELSE [st |-> st, raised |-> TRUE]
    ELSE [st |-> st, raised |-> FALSE]

NoSize == [width |-> -1, height |-> -1]

\* the fallback estimate: charWidth = fontSize * 0.62, lineHeight = fontSize * 1.2
FallbackEstimate(text, fontSize) ==
    [width |-> Len(text) * (fontSize * 620), height |-> fontSize * 1200]

measureTextAccurately(env, st, text, fontSize, fontWeight) ==
    LET cacheKey == MeasureKey(text, fontSize, fontWeight)
    IN  IF cacheKey \in DOMAIN st.textCache
        THEN [st |-> st, raised |-> FALSE, size |-> st.textCache[cacheKey]]
        ELSE LET init == initializeTextMeasurementElement(env, st)
             IN  IF init.raised
                 THEN [st |-> init.st, raised |-> TRUE, size |-> NoSize]
                 ELSE IF init.st.element
                 THEN LET rect == GetBoundingClientRect(env, text, fontSize, fontWeight)
                          result == [width |-> rect.width, height |-> rect.height]
                      IN  [st |-> [init.st EXCEPT
                                      !.textCache = MapSet(@, cacheKey, result)],
                           raised |-> FALSE, size |-> result]
                 ELSE [st |-> init.st, raised |-> FALSE,
                       size |-> FallbackEstimate(text, fontSize)]

\* maxWidth === null (no number is negative here)
NoMaxWidth == -1

RECURSIVE WrapWords_Truncate(_, _, _, _, _)
WrapWords_Truncate(words, i, currentLine, lines, maxChars) ==
    IF i > Len(words)
    THEN IF Len(currentLine) > 0 THEN Append(lines, currentLine) ELSE lines
    ELSE LET word == words[i]
             testLine == IF Len(currentLine) > 0
                         THEN currentLine \o <<" ">> \o word ELSE word
         IN  IF Len(testLine) <= maxChars
             THEN WrapWords_Truncate(words, i + 1, testLine, lines, maxChars)
             ELSE WrapWords_Truncate(words, i + 1,
                                     SubSeq(word, 1, Min(Len(word), maxChars)),
                                     IF Len(currentLine) > 0
                                     THEN Append(lines, currentLine) ELSE lines,
                                     maxChars)

RECURSIVE WrapWords(_, _, _, _, _)
\* the greedy loop over the words
WrapWords(words, i, currentLine, lines, maxChars) ==
    IF i > Len(words)
    THEN IF Len(currentLine) > 0 THEN Append(lines, currentLine) ELSE lines
    ELSE LET word == words[i]
             testLine == IF Len(currentLine) > 0
                         THEN currentLine \o <<" ">> \o word ELSE word
         IN  IF Len(testLine) <= maxChars
             THEN WrapWords(words, i + 1, testLine, lines, maxChars)
             ELSE WrapWords(words, i + 1, word,
                            IF Len(currentLine) > 0 THEN Append(lines, currentLine)
                                                    ELSE lines,
                            maxChars)

wrapText(text, maxWidth, fontSize) ==
    IF Len(text) = 0 THEN << <<>> >>
    ELSE IF maxWidth = NoMaxWidth
    THEN IF \E i \in 1..Len(text) : text[i] = "\n" THEN Split(text, "\n") ELSE <<text>>
    ELSE LET charWidth == fontSize * 620
             maxChars == maxWidth \div charWidth
         IN  IF Len(text) <= maxChars THEN <<text>>
             ELSE LET lines == WrapWords(Split(text, " "), 1, <<>>, <<>>, maxChars)
                  IN  IF Len(lines) > 0 THEN lines
                      ELSE <<SubSeq(text, 1, maxChars)>>

RECURSIVE MeasureLines(_, _, _, _, _, _, _)
\* the loop of measureTextSize over the lines; a raise ends it
MeasureLines(env, st, lines, i, fontSize, fontWeight, maxWidth) ==
    IF i > Len(lines) THEN [st |-> st, raised |-> FALSE, maxWidth |-> maxWidth]
    ELSE LET m == measureTextAccurately(env, st, lines[i], fontSize, fontWeight)
         IN  IF m.raised THEN [st |-> m.st, raised |-> TRUE, maxWidth |-> maxWidth]
             ELSE MeasureLines(env, m.st, lines, i + 1, fontSize, fontWeight,
                               Max(maxWidth, m.size.width))

measureTextSize(env, st, lines, fontSize, fontWeight) ==
    IF Len(lines) = 0
    THEN [st |-> st, raised |-> FALSE,
          size |-> [width |-> Px(40), height |-> fontSize * 1300]]
    ELSE LET lineHeight == fontSize * 1300
             m == MeasureLines(env, st, lines, 1, fontSize, fontWeight, 0)
             height == Len(lines) * lineHeight
             width == Max(m.maxWidth, Px(35))
         IN  IF m.raised THEN [st |-> m.st, raised |-> TRUE, size |-> NoSize]
             ELSE [st |-> m.st, raised |-> FALSE,
                   size |-> [width |-> CeilPx(width), height |-> CeilPx(height)]]

\* the style of a depth: font, weight, width limits and padding (pixels)
StyleOf(depth) ==
    CASE depth = 0 -> [fontSize |-> getFontSizeByDepth(0), fontWeight |-> Bold,
                       maxWidth |-> NoMaxWidth, minWidth |-> 40, padding |-> 18]
      [] depth = 1 -> [fontSize |-> getFontSizeByDepth(1), fontWeight |-> Bold,
                       maxWidth |-> NoMaxWidth, minWidth |-> 38, padding |-> 16]
      [] OTHER -> [fontSize |-> getFontSizeByDepth(depth), fontWeight |-> Normal,
                   maxWidth |-> NoMaxWidth, minWidth |-> 20, padding |-> 10]

NodeBox_TextOnly(textSize, padding, minWidth, fontSizeNum) ==
    [width |-> textSize.width, height |-> textSize.height]

\* the final node box: text size plus padding and safety buffer, floored
NodeBox(textSize, padding, minWidth, fontSizeNum) ==
    LET safetyBuffer == Max(Px(8), (textSize.width * 5) \div 100)
    IN  [width |-> Max(textSize.width + Px(padding) * 2 + safetyBuffer, Px(minWidth)),
         height |-> Max(textSize.height + Px(padding) * 2, Px(fontSizeNum) * 2)]

NoDimensions == [width |-> -1, height |-> -1]

getNodeDimensions(env, st, depth, text) ==
    LET cacheKey == NodeKey(depth, text)
    IN  IF cacheKey \in DOMAIN st.dimsCache
        THEN [st |-> st, raised |-> FALSE, computed |-> FALSE,
              result |-> st.dimsCache[cacheKey]]
        ELSE LET cleanedText == cleanTextContent(text)
                 style == StyleOf(depth)
                 fontSizeNum == ParseInt(style.fontSize)
                 effectiveMaxWidth == IF style.maxWidth # NoMaxWidth
                                      THEN style.maxWidth - Px(style.padding) * 2
                                      ELSE NoMaxWidth
                 lines == wrapText(cleanedText, effectiveMaxWidth, fontSizeNum)
                 m == measureTextSize(env, st, lines, fontSizeNum, style.fontWeight)
             IN  IF m.raised
                 THEN [st |-> m.st, raised |-> TRUE, computed |-> FALSE,
                       result |-> NoDimensions]
                 ELSE LET box == NodeBox(m.size, style.padding, style.minWidth, fontSizeNum)
                          result == [width |-> box.width,
                                     height |-> box.height,
                                     textX |-> box.width \div 2,
                                     textY |-> m.size.height \div 2 + Px(style.padding) \div 2,
                                     fontSize |-> style.fontSize,
                                     fontWeight |-> style.fontWeight,
                                     lines |-> lines,
                                     padding |-> style.padding,
                                     minWidth |-> style.minWidth,
                                     maxWidth |-> style.maxWidth]
                      IN  [st |-> [m.st EXCEPT !.dimsCache = MapSet(@, cacheKey, result)],
                           raised |-> FALSE, computed |-> TRUE, result |-> result]

clearNodeDimensionsCacheForText(st, text) ==
    LET keysToDelete == {key \in DOMAIN st.dimsCache : Includes(key, text)}
        textKeysToDelete == {key \in DOMAIN st.textCache : Includes(key, text)}
    IN  [st EXCEPT !.dimsCache = MapDeleteAll(@, keysToDelete),
                   !.textCache = MapDeleteAll(@, textKeysToDelete)]

\* destroy: the element, once created, is attached to document.body
destroy(st) ==
    [element |-> IF st.element THEN FALSE ELSE st.element,
     textCache |-> EmptyMap,
     dimsCache |-> EmptyMap]

NoTextCall == [op |-> "none", depth |-> -1, text |-> <<>>]

\* the object as the operators above see it
TextState == [element |-> tmElement, textCache |-> tmTextCache, dimsCache |-> tmDimsCache]

\* a new TextMeasurer: no element, both caches empty
TextStart ==
    /\ tmEnv \in [document : BOOLEAN, glyph : GlyphRatios]
    /\ tmElement = FALSE
    /\ tmTextCache = EmptyMap
    /\ tmDimsCache = EmptyMap
    /\ tmCall = NoTextCall
    /\ tmRaised = FALSE
    /\ tmComputed = FALSE
    /\ tmResult = NoDimensions
    /\ tmCalls = 0
    /\ tmComputations = [pair \in Depths \X Texts |-> 0]

TextIdle ==
    /\ tmEnv = [document |-> TRUE, glyph |-> 600]
    /\ tmElement = FALSE
    /\ tmTextCache = EmptyMap
    /\ tmDimsCache = EmptyMap
    /\ tmCall = [op |-> "unused", depth |-> -1, text |-> <<>>]
    /\ tmRaised = FALSE
    /\ tmComputed = FALSE
    /\ tmResult = NoDimensions
    /\ tmCalls = 0
    /\ tmComputations = EmptyMap

CallGetNodeDimensions ==
    /\ tmCall.op # "unused"
    /\ tmCalls < MaxCalls
    /\ \E depth \in Depths, text \in Texts :
        \E r \in {getNodeDimensions(tmEnv, TextState, depth, text)} :
           /\ tmElement' = r.st.element
           /\ tmTextCache' = r.st.textCache
           /\ tmDimsCache' = r.st.dimsCache
           /\ tmCall' = [op |-> "getNodeDimensions", depth |-> depth, text |-> text]
           /\ tmRaised' = r.raised
           /\ tmComputed' = r.computed
           /\ tmResult' = r.result
           /\ tmComputations' =
                 IF r.computed
                 THEN [tmComputations EXCEPT ![<<depth, text>>] = @ + 1]
                 ELSE tmComputations
    /\ tmCalls' = tmCalls + 1
    /\ UNCHANGED tmEnv
    /\ UNCHANGED OthersThanText

CallClearNodeDimensionsCacheForText ==
    /\ tmCall.op # "unused"
    /\ tmCalls < MaxCalls
    /\ \E text \in Texts :
        \E st \in {clearNodeDimensionsCacheForText(TextState, text)} :
           /\ tmElement' = st.element
           /\ tmTextCache' = st.textCache
           /\ tmDimsCache' = st.dimsCache
           /\ tmCall' = [op |-> "clearNodeDimensionsCacheForText", depth |-> -1,
                         text |-> text]
           /\ tmComputations' =
                 [pair \in DOMAIN tmComputations |->
                     IF pair[2] = text THEN 0 ELSE tmComputations[pair]]
    /\ tmRaised' = FALSE
    /\ tmComputed' = FALSE
    /\ tmCalls' = tmCalls + 1
    /\ UNCHANGED <<tmEnv, tmResult>>
    /\ UNCHANGED OthersThanText

CallDestroy ==
    /\ tmCall.op # "unused"
    /\ tmCalls < MaxCalls
    /\ \E st \in {destroy(TextState)} :
           /\ tmElement' = st.element
           /\ tmTextCache' = st.textCache
           /\ tmDimsCache' = st.dimsCache
    /\ tmCall' = [op |-> "destroy", depth |-> -1, text |-> <<>>]
    /\ tmComputations' = [pair \in DOMAIN tmComputations |-> 0]
    /\ tmRaised' = FALSE
    /\ tmComputed' = FALSE
    /\ tmCalls' = tmCalls + 1
    /\ UNCHANGED <<tmEnv, tmResult>>
    /\ UNCHANGED OthersThanText

TextNext ==
    \/ CallGetNodeDimensions
    \/ CallClearNodeDimensionsCacheForText
    \/ CallDestroy

---------------------------------------------------------------------------
(* The tree of MindMapNode objects and the operations on it               *)
(* (src/src/services/mindmap-service.ts; ClipboardManager).  The heap is a *)
(* sequence of node records; a node's identity is its index; parent and   *)
(* children hold indexes.  Objects nobody refers to stay in the heap.     *)

MaxHeap == 4
MaxTreeCalls == 3

MAX_TEXT_LENGTH == 500

\* the null reference
Null == 0

\* String.prototype.trim
Trim(str) == TrimRight(TrimLeft(str))

\* Array.prototype.indexOf (0-based, -1 when absent)
IndexOf(seq, x) ==
    IF \E i \in 1..Len(seq) : seq[i] = x
    THEN (CHOOSE i \in 1..Len(seq) : seq[i] = x /\ \A j \in 1..(i - 1) : seq[j] # x) - 1
    ELSE -1

\* Array.prototype.splice(start, deleteCount, ...items): the array afterwards
Splice(seq, start, deleteCount, items) ==
    LET from == IF start < 0 THEN Max(Len(seq) + start, 0) ELSE Min(start, Len(seq))
        count == Min(Max(deleteCount, 0), Len(seq) - from)
    IN  SubSeq(seq, 1, from) \o items \o SubSeq(seq, from + count + 1, Len(seq))

\* a node literal as the service writes it
NewNode(text, level, parent) ==
    [text |-> text, level |-> level, parent |-> parent, children |-> <<>>,
     expanded |-> TRUE, selected |-> FALSE, hovered |-> FALSE]

createChildNode_Prepend(heap, parentNode, childText) ==
    LET id == Len(heap) + 1
    IN  [heap |-> Append([heap EXCEPT ![parentNode].children = <<id>> \o @],
                         NewNode(childText, heap[parentNode].level + 1, parentNode)),
         result |-> id]

createChildNode(heap, parentNode, childText) ==
    LET id == Len(heap) + 1
    IN  [heap |-> Append([heap EXCEPT ![parentNode].children = Append(@, id)],
                         NewNode(childText, heap[parentNode].level + 1, parentNode)),
         result |-> id]

createSiblingNode(heap, afterNode, siblingText) ==
    IF heap[afterNode].parent = Null
    THEN [heap |-> heap, result |-> Null]
    ELSE LET id == Len(heap) + 1
             parent == heap[afterNode].parent
             childIndex == IndexOf(heap[parent].children, afterNode)
         IN  [heap |-> Append([heap EXCEPT ![parent].children =
                                              Splice(@, childIndex + 1, 0, <<id>>)],
                              NewNode(siblingText, heap[afterNode].level, parent)),
              result |-> id]

deleteNode_NoIndexCheck(heap, nodeToDelete) ==
    IF nodeToDelete = Null THEN [heap |-> heap, result |-> FALSE]
    ELSE IF heap[nodeToDelete].level = 0 THEN [heap |-> heap, result |-> FALSE]
    ELSE IF heap[nodeToDelete].parent = Null THEN [heap |-> heap, result |-> FALSE]
    ELSE LET parent == heap[nodeToDelete].parent
             childIndex == IndexOf(heap[parent].children, nodeToDelete)
         IN  [heap |-> [heap EXCEPT ![parent].children = Splice(@, childIndex, 1, <<>>)],
              result |-> TRUE]

deleteNode(heap, nodeToDelete) ==
    IF nodeToDelete = Null THEN [heap |-> heap, result |-> FALSE]
    ELSE IF heap[nodeToDelete].level = 0 THEN [heap |-> heap, result |-> FALSE]
    ELSE IF heap[nodeToDelete].parent = Null THEN [heap |-> heap, result |-> FALSE]
    ELSE LET parent == heap[nodeToDelete].parent
             childIndex == IndexOf(heap[parent].children, nodeToDelete)
         IN  IF childIndex # -1
             THEN [heap |-> [heap EXCEPT ![parent].children =
                                            Splice(@, childIndex, 1, <<>>)],
                   result |-> TRUE]
             ELSE [heap |-> heap, result |-> FALSE]

RECURSIVE Join(_, _)
\* Array.prototype.join
Join(lines, sep) ==
    IF Len(lines) = 0 THEN <<>>
    ELSE IF Len(lines) = 1 THEN lines[1]
    ELSE lines[1] \o sep \o Join(Tail(lines), sep)

RECURSIVE Traverse(_, _, _)
RECURSIVE TraverseChildren(_, _, _, _)
\* traverse of serializeSubtreeToMarkdown: the lines of a node and its descendants
Traverse(heap, node, depth) ==
    << Repeat(" ", 4 * (depth - 1)) \o <<"*", " ">> \o heap[node].text >>
       \o TraverseChildren(heap, heap[node].children, 1, depth + 1)

TraverseChildren(heap, children, i, depth) ==
    IF i > Len(children) THEN <<>>
    ELSE Traverse(heap, children[i], depth)
            \o TraverseChildren(heap, children, i + 1, depth)

serializeSubtreeToMarkdown(heap, rootNode) == Join(Traverse(heap, rootNode, 1), <<"\n">>)

\* String.prototype.search(/\S/): 0-based index of the first non-whitespace, or -1
SearchNonSpace(str) ==
    IF \E i \in 1..Len(str) : ~IsSpace(str[i])
    THEN (CHOOSE i \in 1..Len(str) :
             ~IsSpace(str[i]) /\ \A j \in 1..(i - 1) : IsSpace(str[j])) - 1
    ELSE -1

\* Array.prototype.filter(line => line.trim().length > 0)
NonBlank(lines) == SelectSeq(lines, LAMBDA line : Len(Trim(line)) > 0)

RECURSIVE PopWhile_Strict(_, _)
PopWhile_Strict(stack, level) ==
    IF Len(stack) > 0 /\ stack[Len(stack)].level > level
    THEN PopWhile_Strict(SubSeq(stack, 1, Len(stack) - 1), level)
    ELSE stack

RECURSIVE PopWhile(_, _)
\* while (stack.length > 0 && stack[top].level >= level) stack.pop()
PopWhile(stack, level) ==
    IF Len(stack) > 0 /\ stack[Len(stack)].level >= level
    THEN PopWhile(SubSeq(stack, 1, Len(stack) - 1), level)
    ELSE stack

\* the body of the loop of createSubtreeFromMarkdown for one line; `b` is
\* [nodes (created so far, linked by index), rootNode, stack]
SubtreeLine(b, line, parentLevel) ==
    LET indent == SearchNonSpace(line)
        level == (indent \div 4) + 1
        trimmed == Trim(line)
        text == Trim(SubSeq(trimmed, 2, Len(trimmed)))
        id == Len(b.nodes) + 1
        stack == PopWhile(b.stack, level)
    IN  IF Len(stack) > 0
        THEN LET parent == stack[Len(stack)].node
             IN  [nodes |-> Append([b.nodes EXCEPT ![parent].children = Append(@, id)],
                                   NewNode(text, parentLevel + level, parent)),
                  rootNode |-> b.rootNode,
                  stack |-> Append(stack, [node |-> id, level |-> level])]
        ELSE [nodes |-> Append(b.nodes, NewNode(text, parentLevel + level, Null)),
              rootNode |-> id,
              stack |-> Append(stack, [node |-> id, level |-> level])]

RECURSIVE SubtreeLines(_, _, _, _)
SubtreeLines(b, lines, i, parentLevel) ==
    IF i > Len(lines) THEN b
    ELSE SubtreeLines(SubtreeLine(b, lines[i], parentLevel), lines, i + 1, parentLevel)

\* the objects created (linked by their index in `nodes`) and the root returned
createSubtreeFromMarkdown(markdown, parentLevel) ==
    LET lines == NonBlank(Split(markdown, "\n"))
    IN  IF Len(lines) = 0 THEN [nodes |-> <<>>, rootNode |-> Null]
        ELSE LET b == SubtreeLines([nodes |-> <<>>, rootNode |-> Null, stack |-> <<>>],
                                   lines, 1, parentLevel)
             IN  [nodes |-> b.nodes, rootNode |-> b.rootNode]

\* the objects of a created subtree placed in the heap after the existing ones
Allocate(heap, nodes) ==
    LET base == Len(heap)
        Shift(ref) == IF ref = Null THEN Null ELSE ref + base
    IN  heap \o [i \in 1..Len(nodes) |->
                    [nodes[i] EXCEPT !.parent = Shift(@),
                                     !.children = [j \in 1..Len(@) |-> Shift(@[j])]]]

\* /^\s*[-*]/m : some line's first non-whitespace character is a list marker
IsMarkdownFormat(text) ==
    \E line \in {Split(text, "\n")[i] : i \in 1..Len(Split(text, "\n"))} :
        LET at == SearchNonSpace(line)
        IN  at # -1 /\ line[at + 1] \in {"-", "*"}

pasteText(heap, node, clipboardText) ==
    LET truncatedText == SubSeq(clipboardText, 1, Min(Len(clipboardText), MAX_TEXT_LENGTH))
        made == createChildNode(heap, node, truncatedText)
    IN  [heap |-> [made.heap EXCEPT ![made.result].selected = TRUE], result |-> TRUE]

pasteSubtree(heap, node, clipboardText) ==
    LET sub == createSubtreeFromMarkdown(clipboardText, heap[node].level)
    IN  IF sub.rootNode # Null
        THEN LET subtreeRoot == sub.rootNode + Len(heap)
                 placed == Allocate(heap, sub.nodes)
             IN  [heap |-> [placed EXCEPT ![subtreeRoot].parent = node,
                                          ![node].children = Append(@, subtreeRoot),
                                          ![subtreeRoot].selected = TRUE],
                  result |-> TRUE]
        ELSE pasteText(heap, node, clipboardText)

\* pasteToNode, given whether the Clipboard API can be used and what it holds
pasteToNode(heap, node, api, clipboardText) ==
    IF ~api THEN [heap |-> heap, result |-> FALSE]
    ELSE IF Len(clipboardText) = 0 \/ Len(Trim(clipboardText)) = 0
    THEN [heap |-> heap, result |-> FALSE]
    ELSE IF IsMarkdownFormat(clipboardText)
    THEN pasteSubtree(heap, node, clipboardText)
    ELSE pasteText(heap, node, clipboardText)

RECURSIVE SubtreeValue(_, _)
\* a subtree as a value: text, level and the children's subtrees in order
SubtreeValue(heap, node) ==
    [text |-> heap[node].text,
     level |-> heap[node].level,
     children |-> [i \in 1..Len(heap[node].children) |->
                      SubtreeValue(heap, heap[node].children[i])]]

RECURSIVE SubtreeAtLevel(_, _, _)
\* the same subtree with its root placed at `level` and each child one deeper
SubtreeAtLevel(heap, node, level) ==
    [text |-> heap[node].text,
     level |-> level,
     children |-> [i \in 1..Len(heap[node].children) |->
                      SubtreeAtLevel(heap, heap[node].children[i], level + 1)]]

RECURSIVE TopAncestor(_, _)
\* the node reached by following parent references to the end
TopAncestor(heap, node) ==
    IF heap[node].parent = Null THEN node ELSE TopAncestor(heap, heap[node].parent)

RECURSIVE Descendants(_, _)
\* getAllDescendants: the node and everything below it, as a set
Descendants(heap, node) ==
    {node} \cup UNION {Descendants(heap, heap[node].children[i]) :
                          i \in 1..Len(heap[node].children)}

\* the texts given to new nodes: empty and plain
NodeTexts == {<<>>, <<"a">>}

\* what the clipboard may hold from elsewhere: plain text with leading whitespace,
\* blank text, a list item indented one step, and two top-level list items
ClipboardTexts ==
    { <<" ", "x">>,
      <<" ">>,
      Repeat(" ", 4) \o <<"*", " ", "a">>,
      <<"*", " ", "a", "\n", "*", " ", "*", "b">> }

\* the nodes a caller can hold: those whose parent chain ends at the document root
\* (in the tree, or removed from it by deleteNode, or created under a removed node)
Held(heap) == {n \in 1..Len(heap) : TopAncestor(heap, n) = 1}

NoTreeCall == [op |-> "none", node |-> Null]

\* a well-formed tree: the root alone, or the root with one child
TreeStart ==
    /\ trHeap \in { <<NewNode(<<"r">>, 0, Null)>>,
                    createChildNode(<<NewNode(<<"r">>, 0, Null)>>, 1, <<"a">>).heap }
    /\ trCall = NoTreeCall
    /\ trReturn = Null
    /\ trCalls = 0

TreeIdle ==
    /\ trHeap = <<>>
    /\ trCall = [op |-> "unused", node |-> Null]
    /\ trReturn = Null
    /\ trCalls = 0

CallCreateChildNode ==
    /\ trCalls < MaxTreeCalls
    /\ Len(trHeap) < MaxHeap
    /\ \E node \in Held(trHeap), text \in NodeTexts :
        \E r \in {createChildNode(trHeap, node, text)} :
           /\ trHeap' = r.heap
           /\ trReturn' = r.result
           /\ trCall' = [op |-> "createChildNode", node |-> node]
    /\ trCalls' = trCalls + 1
    /\ UNCHANGED OthersThanTree

CallCreateSiblingNode ==
    /\ trCalls < MaxTreeCalls
    /\ Len(trHeap) < MaxHeap
    /\ \E node \in Held(trHeap), text \in NodeTexts :
        \E r \in {createSiblingNode(trHeap, node, text)} :
           /\ trHeap' = r.heap
           /\ trReturn' = r.result
           /\ trCall' = [op |-> "createSiblingNode", node |-> node]
    /\ trCalls' = trCalls + 1
    /\ UNCHANGED OthersThanTree

CallDeleteNode ==
    /\ trCalls < MaxTreeCalls
    /\ \E node \in Held(trHeap) \cup {Null} :
        \E r \in {deleteNode(trHeap, node)} :
           /\ trHeap' = r.heap
           /\ trReturn' = r.result
           /\ trCall' = [op |-> "deleteNode", node |-> node]
    /\ trCalls' = trCalls + 1
    /\ UNCHANGED OthersThanTree

\* pasteToNode with the clipboard holding a text from elsewhere or a copy of a node
CallPasteToNode ==
    /\ trCalls < MaxTreeCalls
    /\ \E node \in Held(trHeap), api \in BOOLEAN,
          text \in ClipboardTexts
                     \cup {serializeSubtreeToMarkdown(trHeap, n) : n \in Held(trHeap)} :
        \E r \in {pasteToNode(trHeap, node, api, text)} :
           /\ Len(r.heap) <= MaxHeap
           /\ trHeap' = r.heap
           /\ trReturn' = r.result
           /\ trCall' = [op |-> "pasteToNode", node |-> node]
    /\ trCalls' = trCalls + 1
    /\ UNCHANGED OthersThanTree

TreeNext ==
    \/ CallCreateChildNode
    \/ CallCreateSiblingNode
    \/ CallDeleteNode
    \/ CallPasteToNode

---------------------------------------------------------------------------
(* wrapText called with a maximum width *)

MaxWrapLen == 5

WrapChars == {"a", "b", " "}

\* every text of at most MaxWrapLen characters
WrapTexts == UNION {[1..n -> WrapChars] : n \in 0..MaxWrapLen}

\* maximum widths from 0 to 40 px
WrapWidths == {Px(10 * k) : k \in 0..4}

FontSizes == {ParseInt(getFontSizeByDepth(depth)) : depth \in Depths}

\* the words of a text: its maximal runs of non-space characters, in order
WordsOf(str) == SelectSeq(Split(str, " "), LAMBDA word : Len(word) > 0)

RECURSIVE WordsOfLines(_, _)
\* the words of the lines, line after line
WordsOfLines(lines, i) ==
    IF i > Len(lines) THEN <<>> ELSE WordsOf(lines[i]) \o WordsOfLines(lines, i + 1)

NoLines == <<>>

WrapStart ==
    /\ wtArgs \in [text : WrapTexts, maxWidth : WrapWidths, fontSize : FontSizes]
    /\ wtPc = "args"
    /\ wtLines = NoLines

WrapIdle ==
    /\ wtArgs = [text |-> <<>>, maxWidth |-> NoMaxWidth, fontSize |-> 0]
    /\ wtPc = "unused"
    /\ wtLines = NoLines

CallWrapText ==
    /\ wtPc = "args"
    /\ wtLines' = wrapText(wtArgs.text, wtArgs.maxWidth, wtArgs.fontSize)
    /\ wtPc' = "wrapped"
    /\ UNCHANGED wtArgs
    /\ UNCHANGED OthersThanWrap

WrapNext == CallWrapText

---------------------------------------------------------------------------
(* The adaptive horizontal step (spec.md 4.3) under the two configured     *)
(* adaptiveHorizontalSpacing sections.  Ratios are in hundredths; widths   *)
(* are multiples of 40 px and a depth has one or two nodes, so the average *)
(* and both products are whole pixels.                                     *)

MaxNodesPerDepth == 2

\* LAYOUT_CONSTANTS.ADAPTIVE_HORIZONTAL_SPACING (desktop)
DesktopSpacing ==
    [minSpacing |-> 80, maxSpacing |-> 300, sourceNodeRatio |-> 15,
     targetNodeRatio |-> 10, baseSpacing |-> 60, safetyMargin |-> 10]

\* MobileConfig.getConfig().layout.adaptiveHorizontalSpacing
MobileSpacing ==
    [minSpacing |-> 56, maxSpacing |-> 210, sourceNodeRatio |-> 15,
     targetNodeRatio |-> 10, baseSpacing |-> 42, safetyMargin |-> 7]

\* node widths from 0 to 1200 px
NodeWidths == {40 * k : k \in {0, 1, 10, 23, 30}}

RECURSIVE Sum(_)
Sum(seq) == IF Len(seq) = 0 THEN 0 ELSE Head(seq) + Sum(Tail(seq))

\* the average width of the nodes of a depth
AvgWidth(widths) == Sum(widths) \div Len(widths)

Clamp(x, lo, hi) == Max(lo, Min(x, hi))

AdaptiveStep_Unclamped(spacing, source, target) ==
    spacing.baseSpacing
       + (spacing.sourceNodeRatio * AvgWidth(source)) \div 100
       + (spacing.targetNodeRatio * AvgWidth(target)) \div 100
       + spacing.safetyMargin

\* step = clamp(baseSpacing + sourceRatio * avgWidth(d) + targetRatio * avgWidth(d+1)
\*              + safetyMargin, minSpacing, maxSpacing)
AdaptiveStep(spacing, source, target) ==
    Clamp(spacing.baseSpacing
             + (spacing.sourceNodeRatio * AvgWidth(source)) \div 100
             + (spacing.targetNodeRatio * AvgWidth(target)) \div 100
             + spacing.safetyMargin,
          spacing.minSpacing, spacing.maxSpacing)

NoStep == -1

StepStart ==
    /\ asSpacing \in {DesktopSpacing, MobileSpacing}
    /\ asSource \in UNION {[1..n -> NodeWidths] : n \in 1..MaxNodesPerDepth}
    /\ asTarget \in UNION {[1..n -> NodeWidths] : n \in 1..MaxNodesPerDepth}
    /\ asStep = NoStep
    /\ asPrevStep = NoStep

StepIdle ==
    /\ asSpacing = DesktopSpacing
    /\ asSource = <<>>
    /\ asTarget = <<>>
    /\ asStep = NoStep
    /\ asPrevStep = NoStep

\* the first layout of the two depths
LayoutStep ==
    /\ Len(asSource) > 0
    /\ asStep = NoStep
    /\ asStep' = AdaptiveStep(asSpacing, asSource, asTarget)
    /\ UNCHANGED <<asSpacing, asSource, asTarget, asPrevStep>>
    /\ UNCHANGED OthersThanStep

\* a node at depth d becomes wider and the layout is computed again
WidenSourceNode ==
    /\ asStep # NoStep
    /\ \E i \in 1..Len(asSource), w \in NodeWidths :
          /\ w > asSource[i]
          /\ asSource' = [asSource EXCEPT ![i] = w]
          /\ asStep' = AdaptiveStep(asSpacing, asSource', asTarget)
    /\ asPrevStep' = asStep
    /\ UNCHANGED <<asSpacing, asTarget>>
    /\ UNCHANGED OthersThanStep

\* a node at depth d + 1 becomes wider and the layout is computed again
WidenTargetNode ==
    /\ asStep # NoStep
    /\ \E i \in 1..Len(asTarget), w \in NodeWidths :
          /\ w > asTarget[i]
          /\ asTarget' = [asTarget EXCEPT ![i] = w]
          /\ asStep' = AdaptiveStep(asSpacing, asSource, asTarget')
    /\ asPrevStep' = asStep
    /\ UNCHANGED <<asSpacing, asSource>>
    /\ UNCHANGED OthersThanStep

StepNext ==
    \/ LayoutStep
    \/ WidenSourceNode
    \/ WidenTargetNode

---------------------------------------------------------------------------
(* Rendering of a node: getNodeBounds and createTransform                 *)
(* (src/src/utils/coordinate-system.ts)                                    *)

MaxHalfWidth == 1

RenderWidths == {2 * k : k \in 0..MaxHalfWidth}

\* `${n}` of an integer
NumberString(n) == IF n < 0 THEN <<"-">> \o Digits(0 - n) ELSE Digits(n)

getNodeBounds(canvasX, canvasY, width, height) ==
    [x |-> canvasX, y |-> canvasY, right |-> canvasX + width,
     bottom |-> canvasY + height, width |-> width, height |-> height]

\* `translate(${canvasX}, ${canvasY})`
TranslateString(canvasX, canvasY) ==
    <<"t", "r", "a", "n", "s", "l", "a", "t", "e", "(">> \o NumberString(canvasX)
       \o <<",", " ">> \o NumberString(canvasY) \o <<")">>

createTransform_CentreX(layoutX, layoutY, nodeWidth, nodeHeight, offsetX, offsetY) ==
    TranslateString(toCanvasX(layoutY, offsetX) - Half(nodeWidth),
                    toCanvasY(layoutX, nodeHeight, offsetY))

createTransform(layoutX, layoutY, nodeWidth, nodeHeight, offsetX, offsetY) ==
    LET canvasX == toCanvasX(layoutY, offsetX)
        canvasY == toCanvasY(layoutX, nodeHeight, offsetY)
    IN  TranslateString(canvasX, canvasY)

NoBounds == [x |-> 0, y |-> 0, right |-> 0, bottom |-> 0, width |-> -1, height |-> -1]

NoTransform == [text |-> <<>>, nodeWidth |-> -1]

RenderStart ==
    /\ rnArgs \in [layoutX : Centres, layoutY : Centres, width : RenderWidths,
                   height : Heights, offsetX : Offsets, offsetY : Offsets]
    /\ rnPc = "args"
    /\ rnBounds = NoBounds
    /\ rnTransform = NoTransform

RenderIdle ==
    /\ rnArgs = [layoutX |-> 0, layoutY |-> 0, width |-> 0, height |-> 0,
                 offsetX |-> 0, offsetY |-> 0]
    /\ rnPc = "unused"
    /\ rnBounds = NoBounds
    /\ rnTransform = NoTransform

\* getNodeBounds(toCanvasX(layoutY, ox), toCanvasY(layoutX, h, oy), w, h)
CallGetNodeBounds ==
    /\ rnPc = "args"
    /\ rnBounds' = getNodeBounds(toCanvasX(rnArgs.layoutY, rnArgs.offsetX),
                                 toCanvasY(rnArgs.layoutX, rnArgs.height, rnArgs.offsetY),
                                 rnArgs.width, rnArgs.height)
    /\ rnPc' = "bounds"
    /\ UNCHANGED <<rnArgs, rnTransform>>
    /\ UNCHANGED OthersThanRender

\* createTransform for the same position, with any nodeWidth
CallCreateTransform ==
    /\ rnPc = "bounds"
    /\ \E nodeWidth \in RenderWidths :
          rnTransform' = [text |-> createTransform(rnArgs.layoutX, rnArgs.layoutY, nodeWidth,
                                                   rnArgs.height, rnArgs.offsetX,
                                                   rnArgs.offsetY),
                          nodeWidth |-> nodeWidth]
    /\ rnPc' = "transform"
    /\ UNCHANGED <<rnArgs, rnBounds>>
    /\ UNCHANGED OthersThanRender

RenderNext ==
    \/ CallGetNodeBounds
    \/ CallCreateTransform

---------------------------------------------------------------------------
(* LinkRenderer: the connection points of a link (getLinkConnectionPoints, *)
(* getNodePadding) with toRightEdge and toLeftEdge of the converter        *)

toRightEdge(layoutY, nodeWidth, padding, lineOffset, offsetX) ==
    layoutY + nodeWidth - padding + lineOffset + offsetX

toLeftEdge(layoutY, padding, lineOffset, offsetX) ==
    layoutY + padding - lineOffset + offsetX

getNodePadding(depth) ==
    IF depth = 0 THEN 24 ELSE IF depth = 1 THEN 20 ELSE 16

\* what the constructor may be given: no lineOffset, or a number
LineOffsetOptions ==
    {[given |-> FALSE, lineOffset |-> 0]}
       \cup {[given |-> TRUE, lineOffset |-> n] : n \in {0, 6, 16, 20, 30}}

\* constructor: lineOffset: config?.lineOffset || 6
LinkRendererConfig(config) ==
    [lineOffset |-> IF config.given /\ config.lineOffset # 0 THEN config.lineOffset ELSE 6]

\* widths the measurer gives a source node
LinkWidths == {63, 120}

getLinkConnectionPoints(config, link, offsetX, offsetY) ==
    LET sourcePadding == getNodePadding(link.source.depth)
        targetPadding == getNodePadding(link.target.depth)
    IN  [sourceX |-> toRightEdge(link.source.y, link.sourceWidth, sourcePadding,
                                 config.lineOffset, offsetX),
         targetX |-> toLeftEdge(link.target.y, targetPadding, config.lineOffset, offsetX),
         sourceY |-> toCanvasY(link.source.x, 0, offsetY),
         targetY |-> toCanvasY(link.target.x, 0, offsetY)]

NoPoints == [sourceX |-> 0, targetX |-> 0, sourceY |-> 0, targetY |-> 0]

\* a link goes from a node to one of its children, one level deeper
LinkStart ==
    /\ \E config \in LineOffsetOptions : lkConfig = LinkRendererConfig(config)
    /\ \E depth \in Depths, sy \in Centres, ty \in Centres, width \in LinkWidths :
          lkLink = [source |-> [x |-> 0, y |-> sy, depth |-> depth],
                    target |-> [x |-> 1, y |-> ty, depth |-> depth + 1],
                    sourceWidth |-> width]
    /\ lkOffsets \in [offsetX : Offsets, offsetY : Offsets]
    /\ lkPc = "new"
    /\ lkPoints = NoPoints

LinkIdle ==
    /\ lkConfig = [lineOffset |-> 6]
    /\ lkLink = [source |-> [x |-> 0, y |-> 0, depth |-> 0],
                 target |-> [x |-> 0, y |-> 0, depth |-> 1],
                 sourceWidth |-> 0]
    /\ lkOffsets = [offsetX |-> 0, offsetY |-> 0]
    /\ lkPc = "unused"
    /\ lkPoints = NoPoints

CallGetLinkConnectionPoints ==
    /\ lkPc = "new"
    /\ lkPoints' = getLinkConnectionPoints(lkConfig, lkLink, lkOffsets.offsetX,
                                           lkOffsets.offsetY)
    /\ lkPc' = "points"
    /\ UNCHANGED <<lkConfig, lkLink, lkOffsets>>
    /\ UNCHANGED OthersThanLink

LinkNext == CallGetLinkConnectionPoints

---------------------------------------------------------------------------
(* ConfigManager (src/src/config/config-manager.ts) with the layout       *)
(* section of the desktop and the mobile configuration                     *)

MaxConfigCalls == 4

Languages == {"en", "zh"}

\* DesktopConfig.getConfig(): device flag, default language, layout spacing values
DesktopConfig ==
    [isMobile |-> FALSE,
     language |-> "en",
     layout |-> [minNodeGap |-> 25, horizontalSpacing |-> 220, verticalSpacing |-> 110,
                 minVerticalGap |-> 25, adaptiveHorizontalSpacing |-> DesktopSpacing,
                 nodeHeightBuffer |-> 15]]

\* MobileConfig.getConfig()
MobileConfig ==
    [isMobile |-> TRUE,
     language |-> "en",
     layout |-> [minNodeGap |-> 20, horizontalSpacing |-> 154, verticalSpacing |-> 88,
                 minVerticalGap |-> 20, adaptiveHorizontalSpacing |-> MobileSpacing,
                 nodeHeightBuffer |-> 12]]

\* the constructor: the device's configuration with the user's language written in
ConfigManagerNew(isMobile, language) ==
    [(IF isMobile THEN MobileConfig ELSE DesktopConfig) EXCEPT !.language = language]

NoReturn == [op |-> "none", value |-> "undefined"]

\* the state when the constructor has returned
ConfigStart ==
    /\ \E isMobile \in BOOLEAN, language \in Languages :
          /\ cfConfig = ConfigManagerNew(isMobile, language)
          /\ cfLanguage = language
    /\ cfAtConstruction = cfConfig
    /\ cfReturn = NoReturn
    /\ cfCalls = 0

ConfigIdle ==
    /\ cfConfig = DesktopConfig
    /\ cfLanguage = "en"
    /\ cfAtConstruction = DesktopConfig
    /\ cfReturn = [op |-> "unused", value |-> "undefined"]
    /\ cfCalls = 0

CallGetConfig ==
    /\ cfReturn.op # "unused"
    /\ cfCalls < MaxConfigCalls
    /\ cfReturn' = [op |-> "getConfig", value |-> cfConfig]
    /\ cfCalls' = cfCalls + 1
    /\ UNCHANGED <<cfConfig, cfLanguage, cfAtConstruction>>
    /\ UNCHANGED OthersThanConfig

CallUpdateLanguage ==
    /\ cfReturn.op # "unused"
    /\ cfCalls < MaxConfigCalls
    /\ \E language \in Languages :
          /\ cfLanguage' = language
          /\ cfConfig' = [cfConfig EXCEPT !.language = language]
    /\ cfReturn' = [op |-> "updateLanguage", value |-> "undefined"]
    /\ cfCalls' = cfCalls + 1
    /\ UNCHANGED cfAtConstruction
    /\ UNCHANGED OthersThanConfig

CallIsMobile ==
    /\ cfReturn.op # "unused"
    /\ cfCalls < MaxConfigCalls
    /\ cfReturn' = [op |-> "isMobile", value |-> cfConfig.isMobile]
    /\ cfCalls' = cfCalls + 1
    /\ UNCHANGED <<cfConfig, cfLanguage, cfAtConstruction>>
    /\ UNCHANGED OthersThanConfig

CallGetLayoutConfig ==
    /\ cfReturn.op # "unused"
    /\ cfCalls < MaxConfigCalls
    /\ cfReturn' = [op |-> "getLayoutConfig", value |-> cfConfig.layout]
    /\ cfCalls' = cfCalls + 1
    /\ UNCHANGED <<cfConfig, cfLanguage, cfAtConstruction>>
    /\ UNCHANGED OthersThanConfig

ConfigNext ==
    \/ CallGetConfig
    \/ CallUpdateLanguage
    \/ CallIsMobile
    \/ CallGetLayoutConfig

---------------------------------------------------------------------------
(* createSubtreeFromMarkdown applied to markdown of a few lines            *)

MaxLines == 3

\* the lines a markdown text is made of: blank ones, list items at three depths,
\* a dash item
MarkdownLines ==
    { <<>>,
      <<" ", " ">>,
      <<"*", " ", "a">>,
      <<"-", " ", "b">>,
      Repeat(" ", 4) \o <<"*", " ", "c">>,
      Repeat(" ", 8) \o <<"*", " ", "d">> }

\* every text of one to MaxLines such lines
Markdowns ==
    UNION { {Join(ls, <<"\n">>) : ls \in [1..n -> MarkdownLines]} : n \in 1..MaxLines }

RECURSIVE PreOrder(_, _)
RECURSIVE PreOrderChildren(_, _, _)
\* the nodes of a subtree, parent first, children in list order
PreOrder(nodes, node) ==
    <<node>> \o PreOrderChildren(nodes, nodes[node].children, 1)

PreOrderChildren(nodes, children, i) ==
    IF i > Len(children) THEN <<>>
    ELSE PreOrder(nodes, children[i]) \o PreOrderChildren(nodes, children, i + 1)

NoSubtree == [nodes |-> <<>>, rootNode |-> Null]

ParseStart ==
    /\ \E markdown \in Markdowns, parentLevel \in 0..1 :
          mdArgs = [markdown |-> markdown, parentLevel |-> parentLevel]
    /\ mdPc = "ready"
    /\ mdResult = NoSubtree

ParseIdle ==
    /\ mdArgs = [markdown |-> <<>>, parentLevel |-> 0]
    /\ mdPc = "unused"
    /\ mdResult = NoSubtree

CallCreateSubtreeFromMarkdown ==
    /\ mdPc = "ready"
    /\ mdResult' = createSubtreeFromMarkdown(mdArgs.markdown, mdArgs.parentLevel)
    /\ mdPc' = "done"
    /\ UNCHANGED mdArgs
    /\ UNCHANGED OthersThanParse

ParseNext ==
    \/ CallCreateSubtreeFromMarkdown

---------------------------------------------------------------------------
(* pasteToNode with clipboard texts at the length limit and beyond it      *)

\* texts of exactly MAX_TEXT_LENGTH characters and of one more
LimitTexts == { [i \in 1..(MAX_TEXT_LENGTH + k) |-> "a"] : k \in 0..1 }

\* such a text as it is, and as the text of a markdown list item; a short item
LongClipboardTexts ==
    LimitTexts \cup { <<"*", " ">> \o t : t \in LimitTexts } \cup { <<"*", " ", "a">> }

CallPasteLongText ==
    /\ trCalls < MaxTreeCalls
    /\ \E node \in Held(trHeap), api \in BOOLEAN, text \in LongClipboardTexts :
        \E r \in {pasteToNode(trHeap, node, api, text)} :
           /\ Len(r.heap) <= MaxHeap
           /\ trHeap' = r.heap
           /\ trReturn' = r.result
           /\ trCall' = [op |-> "pasteToNode", node |-> node]
    /\ trCalls' = trCalls + 1
    /\ UNCHANGED OthersThanTree

PasteNext ==
    \/ CallPasteLongText

---------------------------------------------------------------------------
(* ClipboardManager.copyNode and cutNode (src/unnamed/part_002)            *)

MaxCutCalls == 3

\* what the platform does with a copy: navigator.clipboard.writeText resolves,
\* rejects or is not available, and document.execCommand('copy') returns true,
\* returns false or throws
ClipboardEnvs ==
    [writeText : {"resolves", "rejects", "absent"},
     execCommand : {"true", "false", "throws"}]

fallbackCopy(env) == env.execCommand = "true"

\* copyNode: whether it reports success, and the clipboard afterwards
copyNode(env, heap, node, clipboard) ==
    LET markdown == serializeSubtreeToMarkdown(heap, node)
    IN  IF env.writeText = "resolves"
        THEN [success |-> TRUE, clipboard |-> markdown]
        ELSE IF fallbackCopy(env)
             THEN [success |-> TRUE, clipboard |-> markdown]
             ELSE [success |-> FALSE, clipboard |-> clipboard]

\* the optional callbacks that are invoked when present, in this order
Invoke(callbacks, names) == SelectSeq(names, LAMBDA name : name \in callbacks)

cutNode_DeleteAnyway(heap, node, copySuccess, callbacks, log) ==
    LET deleted == deleteNode(heap, node)
    IN  IF deleted.result
        THEN [heap |-> deleted.heap,
              log |-> log \o Invoke(callbacks, <<"clearSelection", "onDataUpdated">>),
              result |-> copySuccess]
        ELSE [heap |-> heap, log |-> log, result |-> FALSE]

\* cutNode from the point where the awaited copyNode has resolved
cutNode(heap, node, copySuccess, callbacks, log) ==
    IF copySuccess
    THEN LET deleted == deleteNode(heap, node)
         IN  IF deleted.result
             THEN [heap |-> deleted.heap,
                   log |-> log \o Invoke(callbacks, <<"clearSelection", "onDataUpdated">>),
                   result |-> TRUE]
             ELSE [heap |-> heap, log |-> log, result |-> FALSE]
    ELSE [heap |-> heap, log |-> log, result |-> FALSE]

\* the nodes of the tree under the document root
InTree(heap) == Descendants(heap, 1)

NoCut == [node |-> Null, copySuccess |-> FALSE]

\* a root with a child and a grandchild, or a root with two children
CutStart ==
    /\ ctHeap \in
         { createChildNode(createChildNode(<<NewNode(<<"r">>, 0, Null)>>, 1, <<"a">>).heap,
                           n, <<"b">>).heap : n \in 1..2 }
    /\ ctCallbacks \in SUBSET {"clearSelection", "onDataUpdated"}
    /\ ctCut = NoCut
    /\ ctPc = "idle"
    /\ ctClipboard = <<>>
    /\ ctLog = <<>>
    /\ ctReturn = FALSE
    /\ ctCalls = 0

CutIdle ==
    /\ ctHeap = <<>>
    /\ ctCallbacks = {}
    /\ ctCut = NoCut
    /\ ctPc = "unused"
    /\ ctClipboard = <<>>
    /\ ctLog = <<>>
    /\ ctReturn = FALSE
    /\ ctCalls = 0

\* cutNode up to `await this.copyNode(node)`: the copy is made, cutNode is suspended
CallCutNode ==
    /\ ctPc = "idle"
    /\ ctCalls < MaxCutCalls
    /\ \E node \in 1..Len(ctHeap), env \in ClipboardEnvs :
        \E c \in {copyNode(env, ctHeap, node, ctClipboard)} :
           /\ ctCut' = [node |-> node, copySuccess |-> c.success]
           /\ ctClipboard' = c.clipboard
    /\ ctPc' = "awaitCopy"
    /\ ctCalls' = ctCalls + 1
    /\ UNCHANGED <<ctHeap, ctCallbacks, ctLog, ctReturn>>
    /\ UNCHANGED OthersThanCut

\* cutNode resumed after the await
ResumeCutNode ==
    /\ ctPc = "awaitCopy"
    /\ \E r \in {cutNode(ctHeap, ctCut.node, ctCut.copySuccess, ctCallbacks, ctLog)} :
           /\ ctHeap' = r.heap
           /\ ctLog' = r.log
           /\ ctReturn' = r.result
    /\ ctPc' = "idle"
    /\ UNCHANGED <<ctCallbacks, ctCut, ctClipboard, ctCalls>>
    /\ UNCHANGED OthersThanCut

\* another handler deletes a node, also while a cutNode is suspended
CutOtherDeleteNode ==
    /\ ctPc \in {"idle", "awaitCopy"}
    /\ ctCalls < MaxCutCalls
    /\ \E node \in 1..Len(ctHeap) : ctHeap' = deleteNode(ctHeap, node).heap
    /\ ctCalls' = ctCalls + 1
    /\ UNCHANGED <<ctCallbacks, ctCut, ctPc, ctClipboard, ctLog, ctReturn>>
    /\ UNCHANGED OthersThanCut

CutNext ==
    \/ CallCutNode
    \/ ResumeCutNode
    \/ CutOtherDeleteNode

---------------------------------------------------------------------------
(* NodeEditor (src/unnamed/part_002): the editing session of one node at a *)
(* time.  A node's text element is identified with the node.  The          *)
(* callbacks are registered; the editing hint is not modelled.             *)

MaxEditorCalls == 5
NumEditorNodes == 3

\* VALIDATION_CONSTANTS.INVALID_CHARACTERS
INVALID_CHARACTERS == {"\t"}

\* the d3 nodes: node 1 is the root, the others are its children
EditorNodes == 1..NumEditorNodes

DepthOf(node) == IF node = 1 THEN 0 ELSE 1

\* what the user may leave in the element: nothing, blanks, short texts, a text
\* with blanks around it, one with a tab inside, one longer than the limit
EditTexts ==
    { <<>>, <<" ">>, <<"a">>, <<" ", "b", " ">>, <<"a", "\t", "b">>,
      [i \in 1..(MAX_TEXT_LENGTH + 1) |-> "b"] }

\* the state the constructor creates when none is passed in
DefaultEditingState ==
    [isEditing |-> FALSE, currentNode |-> Null, originalText |-> <<>>, editElement |-> Null]

validateText(text) ==
    /\ ~(Len(text) = 0 \/ Len(Trim(text)) = 0)
    /\ ~(Len(text) > MAX_TEXT_LENGTH)
    /\ ~(\E ch \in INVALID_CHARACTERS : Includes(text, <<ch>>))

\* An editor value `e` is [editingState, canvas, nodes, elements, log, timers].

setCanvasInteraction(e, enabled) == [e EXCEPT !.canvas = enabled]

exitEditMode(e) ==
    IF ~e.editingState.isEditing THEN e
    ELSE LET editElement == e.editingState.editElement
             restored == setCanvasInteraction(e, TRUE)
             cleaned == IF editElement # Null
                        THEN [restored EXCEPT !.elements[editElement].contentEditable = FALSE]
                        ELSE restored
         IN  [cleaned EXCEPT !.editingState = DefaultEditingState]

\* showValidationError: the message element aside, it leaves edit mode
showValidationError(e) ==
    IF e.editingState.isEditing THEN exitEditMode(e) ELSE e

enableEditing_KeepSession(e, node, domFails) ==
    IF DepthOf(node) = 0 THEN e
    ELSE LET off == setCanvasInteraction(e, FALSE)
             set == [off EXCEPT !.editingState =
                        [isEditing |-> TRUE, currentNode |-> node,
                         originalText |-> off.nodes[node], editElement |-> node]]
             editable == [set EXCEPT !.elements[node].contentEditable = TRUE]
         IN  IF domFails
             THEN exitEditMode(showValidationError(editable))
             ELSE [editable EXCEPT !.timers = @ + 1]

\* enableEditing(node, editElement); domFails: the DOM calls in its try raise after
\* the element was made editable
enableEditing(e, node, domFails) ==
    IF DepthOf(node) = 0 THEN e
    ELSE LET left == IF e.editingState.isEditing /\ e.editingState.currentNode # node
                     THEN exitEditMode(e) ELSE e
             off == setCanvasInteraction(left, FALSE)
             set == [off EXCEPT !.editingState =
                        [isEditing |-> TRUE, currentNode |-> node,
                         originalText |-> off.nodes[node], editElement |-> node]]
             editable == [set EXCEPT !.elements[node].contentEditable = TRUE]
         IN  IF domFails
             THEN exitEditMode(showValidationError(editable))
             ELSE [editable EXCEPT !.timers = @ + 1]

cancelEdit(e) ==
    IF ~e.editingState.isEditing THEN e
    ELSE LET editElement == e.editingState.editElement
             restored == IF editElement # Null /\ Len(e.editingState.originalText) > 0
                         THEN [e EXCEPT !.elements[editElement].textContent =
                                            e.editingState.originalText]
                         ELSE e
         IN  exitEditMode(restored)

\* one callback invocation: its name, the node, the text passed and the node's
\* text at that moment
Invocation(e, name, node, text) ==
    [name |-> name, node |-> node, text |-> text, dataText |-> e.nodes[node]]

\* the catch block of saveText
saveTextCatch(e, editElement) ==
    LET shown == showValidationError(e)
    IN  [shown EXCEPT !.elements[editElement].textContent = shown.editingState.originalText]

saveText_SkipValidation(e, throws) ==
    IF \/ ~e.editingState.isEditing
       \/ e.editingState.currentNode = Null
       \/ e.editingState.editElement = Null
    THEN e
    ELSE LET editElement == e.editingState.editElement
             currentNode == e.editingState.currentNode
             newText == Trim(e.elements[editElement].textContent)
         IN  IF newText = e.editingState.originalText THEN exitEditMode(e)
             ELSE LET before == [e EXCEPT !.log = Append(@,
                                     Invocation(e, "onBeforeTextChange", currentNode, <<>>))]
                      written == [before EXCEPT !.nodes[currentNode] = newText]
                      after == [written EXCEPT !.log = Append(@,
                                     Invocation(written, "onTextChanged", currentNode, newText))]
                  IN  exitEditMode(after)

saveText_WriteFirst(e, throws) ==
    IF \/ ~e.editingState.isEditing
       \/ e.editingState.currentNode = Null
       \/ e.editingState.editElement = Null
    THEN e
    ELSE LET editElement == e.editingState.editElement
             currentNode == e.editingState.currentNode
             newText == Trim(e.elements[editElement].textContent)
         IN  IF ~validateText(newText) THEN showValidationError(e)
             ELSE IF newText = e.editingState.originalText THEN exitEditMode(e)
             ELSE LET written == [e EXCEPT !.nodes[currentNode] = newText]
                      before == [written EXCEPT !.log = Append(@,
                                     Invocation(written, "onBeforeTextChange", currentNode, <<>>))]
                      after == [before EXCEPT !.log = Append(@,
                                     Invocation(before, "onTextChanged", currentNode, newText))]
                  IN  exitEditMode(after)

\* saveText; throws: which callback raises, "none", "before" or "after"
saveText(e, throws) ==
    IF \/ ~e.editingState.isEditing
       \/ e.editingState.currentNode = Null
       \/ e.editingState.editElement = Null
    THEN e
    ELSE LET editElement == e.editingState.editElement
             currentNode == e.editingState.currentNode
             newText == Trim(e.elements[editElement].textContent)
         IN  IF ~validateText(newText) THEN showValidationError(e)
             ELSE IF newText = e.editingState.originalText THEN exitEditMode(e)
             ELSE LET before == [e EXCEPT !.log = Append(@,
                                     Invocation(e, "onBeforeTextChange", currentNode, <<>>))]
                      written == [before EXCEPT !.nodes[currentNode] = newText]
                      after == [written EXCEPT !.log = Append(@,
                                     Invocation(written, "onTextChanged", currentNode, newText))]
                  IN  IF throws = "before"
                      THEN exitEditMode(saveTextCatch(before, editElement))
                      ELSE IF throws = "after"
                      THEN exitEditMode(saveTextCatch(after, editElement))
                      ELSE exitEditMode(after)

\* NodeEditor.destroy
destroyEditor(e) == exitEditMode(e)

\* the callback of setTimeout(..., 10) in enableEditing; focusFails: focusing or
\* selecting raises
focusTimer(e, focusFails) ==
    LET fired == [e EXCEPT !.timers = @ - 1]
    IN  IF focusFails THEN exitEditMode(showValidationError(fired)) ELSE fired

\* the editor as one value, and its assignment to the variables
Editor ==
    [editingState |-> edState, canvas |-> edCanvas, nodes |-> edNodes,
     elements |-> edElements, log |-> edLog, timers |-> edTimers]

EditorBecomes(e) ==
    /\ edState' = e.editingState
    /\ edCanvas' = e.canvas
    /\ edNodes' = e.nodes
    /\ edElements' = e.elements
    /\ edLog' = e.log
    /\ edTimers' = e.timers

NoEditorCall == [op |-> "none", throws |-> "none"]

\* a NodeEditor as constructed, every node with the text "a" shown in its element
EditorStart ==
    /\ edState = DefaultEditingState
    /\ edCanvas = TRUE
    /\ edNodes = [n \in EditorNodes |-> <<"a">>]
    /\ edElements = [n \in EditorNodes |->
                        [textContent |-> <<"a">>, contentEditable |-> FALSE]]
    /\ edLog = <<>>
    /\ edTimers = 0
    /\ edCall = NoEditorCall
    /\ edCalls = 0

EditorIdle ==
    /\ edState = DefaultEditingState
    /\ edCanvas = TRUE
    /\ edNodes = <<>>
    /\ edElements = <<>>
    /\ edLog = <<>>
    /\ edTimers = 0
    /\ edCall = [op |-> "unused", throws |-> "none"]
    /\ edCalls = 0

EditorCall(op, throws) ==
    /\ edCall.op # "unused"
    /\ edCalls < MaxEditorCalls
    /\ edCalls' = edCalls + 1
    /\ edCall' = [op |-> op, throws |-> throws]
    /\ UNCHANGED OthersThanEditor

CallEnableEditing ==
    /\ \E node \in EditorNodes, domFails \in BOOLEAN :
          EditorBecomes(enableEditing(Editor, node, domFails))
    /\ EditorCall("enableEditing", "none")

CallExitEditMode ==
    /\ EditorBecomes(exitEditMode(Editor))
    /\ EditorCall("exitEditMode", "none")

CallCancelEdit ==
    /\ EditorBecomes(cancelEdit(Editor))
    /\ EditorCall("cancelEdit", "none")

CallSaveText ==
    \E throws \in {"none", "before", "after"} :
        /\ EditorBecomes(saveText(Editor, throws))
        /\ EditorCall("saveText", throws)

CallDestroyEditor ==
    /\ EditorBecomes(destroyEditor(Editor))
    /\ EditorCall("destroy", "none")

\* the user changes the text shown in the element being edited
UserTypes ==
    /\ edState.isEditing
    /\ \E text \in EditTexts :
          /\ text # edElements[edState.editElement].textContent
          /\ edElements' = [edElements EXCEPT ![edState.editElement].textContent = text]
    /\ UNCHANGED <<edState, edCanvas, edNodes, edLog, edTimers>>
    /\ EditorCall("type", "none")

FocusTimerFires ==
    /\ edTimers > 0
    /\ \E focusFails \in BOOLEAN : EditorBecomes(focusTimer(Editor, focusFails))
    /\ EditorCall("focusTimer", "none")

EditorNext ==
    \/ CallEnableEditing
    \/ CallExitEditMode
    \/ CallCancelEdit
    \/ CallSaveText
    \/ CallDestroyEditor
    \/ UserTypes
    \/ FocusTimerFires

---------------------------------------------------------------------------
(* Specifications: one per component, the other components idle *)

CoordInit ==
    /\ CoordStart
    /\ OverlapIdle
    /\ TextIdle
    /\ TreeIdle
    /\ WrapIdle
    /\ StepIdle
    /\ RenderIdle
    /\ LinkIdle
    /\ ConfigIdle
    /\ ParseIdle
    /\ CutIdle
    /\ EditorIdle

SpecCoord == CoordInit /\ [][CoordNext]_vars

OverlapInit ==
    /\ OverlapStart
    /\ CoordIdle
    /\ TextIdle
    /\ TreeIdle
    /\ WrapIdle
    /\ StepIdle
    /\ RenderIdle
    /\ LinkIdle
    /\ ConfigIdle
    /\ ParseIdle
    /\ CutIdle
    /\ EditorIdle

SpecOverlap == OverlapInit /\ [][OverlapNext]_vars

TextInit ==
    /\ TextStart
    /\ CoordIdle
    /\ OverlapIdle
    /\ TreeIdle
    /\ WrapIdle
    /\ StepIdle
    /\ RenderIdle
    /\ LinkIdle
    /\ ConfigIdle
    /\ ParseIdle
    /\ CutIdle
    /\ EditorIdle

SpecText == TextInit /\ [][TextNext]_vars

TreeInit ==
    /\ TreeStart
    /\ CoordIdle
    /\ OverlapIdle
    /\ TextIdle
    /\ WrapIdle
    /\ StepIdle
    /\ RenderIdle
    /\ LinkIdle
    /\ ConfigIdle
    /\ ParseIdle
    /\ CutIdle
    /\ EditorIdle

SpecTree == TreeInit /\ [][TreeNext]_vars

WrapInit ==
    /\ WrapStart
    /\ CoordIdle
    /\ OverlapIdle
    /\ TextIdle
    /\ TreeIdle
    /\ StepIdle
    /\ RenderIdle
    /\ LinkIdle
    /\ ConfigIdle
    /\ ParseIdle
    /\ CutIdle
    /\ EditorIdle

SpecWrap == WrapInit /\ [][WrapNext]_vars

StepInit ==
    /\ StepStart
    /\ CoordIdle
    /\ OverlapIdle
    /\ TextIdle
    /\ TreeIdle
    /\ WrapIdle
    /\ RenderIdle
    /\ LinkIdle
    /\ ConfigIdle
    /\ ParseIdle
    /\ CutIdle
    /\ EditorIdle

SpecStep == StepInit /\ [][StepNext]_vars

RenderInit ==
    /\ RenderStart
    /\ CoordIdle
    /\ OverlapIdle
    /\ TextIdle
    /\ TreeIdle
    /\ WrapIdle
    /\ StepIdle
    /\ LinkIdle
    /\ ConfigIdle
    /\ ParseIdle
    /\ CutIdle
    /\ EditorIdle

SpecRender == RenderInit /\ [][RenderNext]_vars

LinkInit ==
    /\ LinkStart
    /\ CoordIdle
    /\ OverlapIdle
    /\ TextIdle
    /\ TreeIdle
    /\ WrapIdle
    /\ StepIdle
    /\ RenderIdle
    /\ ConfigIdle
    /\ ParseIdle
    /\ CutIdle
    /\ EditorIdle

SpecLink == LinkInit /\ [][LinkNext]_vars

ConfigInit ==
    /\ ConfigStart
    /\ CoordIdle
    /\ OverlapIdle
    /\ TextIdle
    /\ TreeIdle
    /\ WrapIdle
    /\ StepIdle
    /\ RenderIdle
    /\ LinkIdle
    /\ ParseIdle
    /\ CutIdle
    /\ EditorIdle

SpecConfig == ConfigInit /\ [][ConfigNext]_vars

ParseInit ==
    /\ ParseStart
    /\ CoordIdle
    /\ OverlapIdle
    /\ TextIdle
    /\ TreeIdle
    /\ WrapIdle
    /\ StepIdle
    /\ RenderIdle
    /\ LinkIdle
    /\ ConfigIdle
    /\ CutIdle
    /\ EditorIdle

SpecParse == ParseInit /\ [][ParseNext]_vars

CutInit ==
    /\ CutStart
    /\ CoordIdle
    /\ OverlapIdle
    /\ TextIdle
    /\ TreeIdle
    /\ WrapIdle
    /\ StepIdle
    /\ RenderIdle
    /\ LinkIdle
    /\ ConfigIdle
    /\ ParseIdle
    /\ EditorIdle

SpecCut == CutInit /\ [][CutNext]_vars

EditorInit ==
    /\ EditorStart
    /\ CoordIdle
    /\ OverlapIdle
    /\ TextIdle
    /\ TreeIdle
    /\ WrapIdle
    /\ StepIdle
    /\ RenderIdle
    /\ LinkIdle
    /\ ConfigIdle
    /\ ParseIdle
    /\ CutIdle

SpecEditor == EditorInit /\ [][EditorNext]_vars

---------------------------------------------------------------------------
C2_OverlapIffGaps ==
    ccPc = "overlap" =>
        /\ ccOverlap.fwd <=> (ccGap.fwd < ccArgs.gap /\ ccGap.rev < ccArgs.gap)
        /\ ccOverlap.fwd = ccOverlap.rev
        /\ (ccArgs.gap = 0 /\ (ccGap.fwd = 0 \/ ccGap.rev = 0)) => ~ccOverlap.fwd

\* an exact touch of two nodes of non-zero height with g = 0 was tested
C2_Witness ==
    /\ ccPc = "overlap"
    /\ ccArgs.gap = 0
    /\ ccGap.fwd = 0
    /\ ccArgs.h1 > 0
    /\ ccArgs.h2 > 0
    /\ ~ccOverlap.fwd

C4_Idempotent ==
    (ovPc = "returned" /\ ovPrev.converged) =>
        /\ ovAdjustments = <<>>
        /\ ovCentre = ovCentreAtCall
        /\ ovConverged

\* the second call returned after a first call that made adjustments and converged
C4_Witness ==
    /\ ovPc = "returned"
    /\ ovCalls = 2
    /\ ovPrev.converged
    /\ ovPrev.adjustments > 0

(* C5: overlap resolution terminates: every pass of a running call either *)
(* returns or is one more of at most MaxIterations adjusting passes (no    *)
(* pass raises: RunPass is total); the call returns converged after a pass *)
(* with zero adjustments, and at the cap it still returns its adjustments, *)
(* flagged as non-converged.                                               *)
C5_Bounded ==
    /\ ovPc = "running" => ovIter < MaxIterations
    /\ ovPc = "returned" =>
        /\ ovIter <= MaxIterations
        /\ ovConverged \/ ovIter = MaxIterations
        /\ ovIter = MaxIterations => (~ovConverged /\ Len(ovAdjustments) >= MaxIterations)

C5_Progress ==
    ovPc = "running" =>
        \/ ovPc' = "returned"
        \/ ovPc' = "running" /\ ovIter' = ovIter + 1

C5_Terminates == []C5_Bounded /\ [][C5_Progress]_vars

\* a call hit the iteration cap and returned flagged as non-converged
C5_Witness ==
    /\ ovPc = "returned"
    /\ ~ovConverged
    /\ ovIter = MaxIterations
    /\ ovAdjustments # <<>>

---------------------------------------------------------------------------
(* C6: whatever the text, empty included, getNodeDimensions returns a     *)
(* width of at least the minimum width of the depth (40 px at depth 0,    *)
(* 38 px at depth 1, 20 px deeper) and a height of at least twice the     *)
(* font size of the depth (20, 18, 15 px); the same holds of every        *)
(* stored entry.                                                           *)
C6_MinimumSize ==
    LET minWidth(d) == IF d = 0 THEN 40 ELSE IF d = 1 THEN 38 ELSE 20
        fontSize(d) == IF d = 0 THEN 20 ELSE IF d = 1 THEN 18 ELSE 15
        Floored(d, dims) == /\ dims.width >= Px(minWidth(d))
                            /\ dims.height >= 2 * Px(fontSize(d))
    IN  /\ (tmCall.op = "getNodeDimensions" /\ ~tmRaised)
              => Floored(tmCall.depth, tmResult)
        /\ \A d \in Depths, t \in Texts :
              NodeKey(d, t) \in DOMAIN tmDimsCache
                 => Floored(d, tmDimsCache[NodeKey(d, t)])

\* the dimensions of the empty text were computed at the root and at a deeper level
C6_Witness ==
    /\ tmCall.op = "getNodeDimensions"
    /\ tmCall.text = <<>>
    /\ tmCall.depth = 0
    /\ tmComputed
    /\ ~tmRaised
    /\ NodeKey(2, <<>>) \in DOMAIN tmDimsCache

(* C7: the dimension computation never raises; where there is no          *)
(* measurement surface (no document to create the element in) the call    *)
(* returns dimensions built on the fallback estimate                      *)
(* width = text.length * 0.62 * fontSize.                                  *)
C7_FallbackInsteadOfRaise ==
    /\ ~tmRaised
    /\ (tmCall.op = "getNodeDimensions" /\ ~tmEnv.document) =>
          LET style == StyleOf(tmCall.depth)
              fontSizeNum == ParseInt(style.fontSize)
              estimate == FallbackEstimate(cleanTextContent(tmCall.text), fontSizeNum)
              textSize == [width |-> CeilPx(Max(estimate.width, Px(35))),
                           height |-> CeilPx(fontSizeNum * 1300)]
              box == NodeBox(textSize, style.padding, style.minWidth, fontSizeNum)
          IN  tmResult.width = box.width /\ tmResult.height = box.height

(* C8: the width and the height getNodeDimensions returns are whole       *)
(* numbers of pixels, also for a text measured wider than 160 px, where   *)
(* the safety buffer is 5% of the text width.                              *)
C8_IntegerBox ==
    (tmCall.op = "getNodeDimensions" /\ ~tmRaised)
       => /\ tmResult.width % Px(1) = 0
          /\ tmResult.height % Px(1) = 0

(* C9: clearNodeDimensionsCacheForText(t) removes exactly the stored      *)
(* dimensions whose text equals t and leaves those of every other text in *)
(* place.                                                                  *)
C9_PointInvalidation ==
    [][(tmCall'.op = "clearNodeDimensionsCacheForText" /\ tmCalls' = tmCalls + 1)
          => \A d \in Depths, t \in Texts :
                (NodeKey(d, t) \in DOMAIN tmDimsCache')
                   <=> (NodeKey(d, t) \in DOMAIN tmDimsCache /\ t # tmCall'.text)]_vars

(* C10: in any sequence of getNodeDimensions,                             *)
(* clearNodeDimensionsCacheForText and destroy calls the dimensions of a  *)
(* (depth, text) pair are computed at most once between two invalidations *)
(* of that text, and two distinct pairs never share a cache entry.        *)
C10_ComputedOnce ==
    /\ \A pair \in DOMAIN tmComputations : tmComputations[pair] <= 1
    /\ \A p \in Depths \X Texts, q \in Depths \X Texts :
          p # q => NodeKey(p[1], p[2]) # NodeKey(q[1], q[2])

(* C11: after any sequence of createChildNode, createSiblingNode,         *)
(* deleteNode and paste from a well-formed tree, every node reachable     *)
(* from the root other than the root is held in exactly one children      *)
(* list, its parent reference is the node holding it, and its level is    *)
(* its parent's level + 1.                                                 *)
C11_TreeWellFormed ==
    trCall.op # "unused" =>
       LET inTree == Descendants(trHeap, 1)
           holders(n) == {<<h, i>> \in inTree \X (1..MaxHeap) :
                             /\ i <= Len(trHeap[h].children)
                             /\ trHeap[h].children[i] = n}
       IN  \A n \in inTree \ {1} :
              /\ Cardinality(holders(n)) = 1
              /\ \A hi \in holders(n) :
                    /\ trHeap[n].parent = hi[1]
                    /\ trHeap[n].level = trHeap[hi[1]].level + 1

(* C12: children order is insertion order: createChildNode and a          *)
(* successful paste append the new child after all existing children, and *)
(* no operation changes the relative order of the children a node already *)
(* had.                                                                    *)
C12_InsertionOrder ==
    [][/\ \A h \in 1..Len(trHeap) :
             LET old == trHeap[h].children
                 new == trHeap'[h].children
                 InOld(x) == \E i \in 1..Len(old) : old[i] = x
                 InNew(x) == \E i \in 1..Len(new) : new[i] = x
             IN  SelectSeq(new, InOld) = SelectSeq(old, InNew)
       /\ (trCall'.op = "createChildNode" \/ (trCall'.op = "pasteToNode" /\ trReturn' = TRUE))
             => LET old == trHeap[trCall'.node].children
                    new == trHeap'[trCall'.node].children
                IN  /\ Len(new) = Len(old) + 1
                    /\ SubSeq(new, 1, Len(old)) = old
                    /\ new[Len(new)] > Len(trHeap)]_vars

\* a child was appended to a node that already had two children
C12_Witness ==
    /\ trCall.op \in {"createChildNode", "pasteToNode"}
    /\ trCall.node # Null
    /\ Len(trHeap[trCall.node].children) >= 3
    /\ trHeap[trCall.node].children[3] = Len(trHeap)

(* C18: for every subtree whose texts are single-line without leading or  *)
(* trailing whitespace, createSubtreeFromMarkdown(                        *)
(* serializeSubtreeToMarkdown(n), L) returns a subtree of the same shape, *)
(* child order and texts, with its root at level L + 1.                    *)
C18_MarkdownRoundTrip ==
    \A n \in 1..Len(trHeap), L \in 0..1 :
       (\A d \in Descendants(trHeap, n) :
            /\ Trim(trHeap[d].text) = trHeap[d].text
            /\ \A i \in 1..Len(trHeap[d].text) : trHeap[d].text[i] # "\n")
       => LET sub == createSubtreeFromMarkdown(serializeSubtreeToMarkdown(trHeap, n), L)
          IN  /\ sub.rootNode # Null
              /\ SubtreeValue(sub.nodes, sub.rootNode) = SubtreeAtLevel(trHeap, n, L + 1)

\* a subtree with two children, one of which has a child, and an empty text in it
C18_Witness ==
    \E n \in 1..Len(trHeap) :
       /\ Len(trHeap[n].children) = 2
       /\ \E i \in 1..2 : Len(trHeap[trHeap[n].children[i]].children) = 1
       /\ \E d \in Descendants(trHeap, n) : trHeap[d].text = <<>>
       /\ \A d \in Descendants(trHeap, n) : Trim(trHeap[d].text) = trHeap[d].text

(* C20: deleteNode returns false and leaves the tree unchanged when the   *)
(* node has level 0, has no parent, or is not in its parent's children    *)
(* list; so the root is never removed and deleting a node a second time   *)
(* changes nothing.                                                        *)
C20_DeleteRefused ==
    [][(trCall'.op = "deleteNode" /\ trCalls' = trCalls + 1 /\ trCall'.node # Null)
          => LET n == trCall'.node
             IN  (\/ trHeap[n].level = 0
                  \/ trHeap[n].parent = Null
                  \/ IndexOf(trHeap[trHeap[n].parent].children, n) = -1)
                    => (trReturn' = FALSE /\ trHeap' = trHeap)]_vars

\* a node that was already removed was deleted again, and the parent still has children
C20_Witness ==
    /\ trCall.op = "deleteNode"
    /\ trCall.node # Null
    /\ trReturn = FALSE
    /\ trHeap[trCall.node].level > 0
    /\ trHeap[trCall.node].parent # Null
    /\ IndexOf(trHeap[trHeap[trCall.node].parent].children, trCall.node) = -1
    /\ Len(trHeap[trHeap[trCall.node].parent].children) > 0

(* C13: for an empty or whitespace-only text at any depth                 *)
(* getNodeDimensions returns without error and the lines of its result    *)
(* are exactly one empty line.                                             *)
C13_EmptyTextOneLine ==
    (tmCall.op = "getNodeDimensions" /\ Trim(tmCall.text) = <<>>)
       => /\ ~tmRaised
          /\ tmResult.lines = << <<>> >>

(* C14: with a maximum width wrapText never splits a word: the words of   *)
(* the output lines, line after line, are the words of the input in the   *)
(* original order, and every output line is at most                       *)
(* floor(maxWidth / charWidth) characters long unless it is a single word. *)
C14_WordsWhole ==
    wtPc = "wrapped" =>
       LET maxChars == wtArgs.maxWidth \div (wtArgs.fontSize * 620)
       IN  /\ WordsOfLines(wtLines, 1) = WordsOf(wtArgs.text)
           /\ \A i \in 1..Len(wtLines) :
                 \/ Len(wtLines[i]) <= maxChars
                 \/ WordsOf(wtLines[i]) = <<wtLines[i]>>

\* a text of two words wrapped into two lines, one of them a word longer than the limit
C14_Witness ==
    /\ wtPc = "wrapped"
    /\ Len(WordsOf(wtArgs.text)) = 2
    /\ Len(wtLines) = 2
    /\ \E i \in 1..2 : Len(wtLines[i]) > wtArgs.maxWidth \div (wtArgs.fontSize * 620)

(* C15: with the desktop and the mobile ratios and bounds, widening a     *)
(* node at depth d or d + 1 never decreases the clamped step between the  *)
(* two depths, and the step always lies within [minSpacing, maxSpacing].  *)
C15_StepMonotone ==
    asStep # NoStep =>
       /\ asStep >= asSpacing.minSpacing
       /\ asStep <= asSpacing.maxSpacing
       /\ asPrevStep # NoStep => asStep >= asPrevStep

\* a widening that moved the step strictly between the two bounds
C15_Witness ==
    /\ asPrevStep # NoStep
    /\ asStep > asPrevStep
    /\ asPrevStep > asSpacing.minSpacing
    /\ asStep < asSpacing.maxSpacing

(* C16: for every layout position, node size and offsets the rectangle    *)
(* getNodeBounds(toCanvasX(layoutY, ox), toCanvasY(layoutX, h, oy), w, h) *)
(* has x = layoutY + ox, right = x + w, bottom = y + h and is vertically  *)
(* centred on layoutX + oy; createTransform gives translate(x, y) of the  *)
(* same x and y whatever nodeWidth it is given.                            *)
C16_BoundsAndTransform ==
    /\ rnPc \in {"bounds", "transform"} =>
          /\ rnBounds.x = rnArgs.layoutY + rnArgs.offsetX
          /\ rnBounds.right = rnBounds.x + rnArgs.width
          /\ rnBounds.bottom = rnBounds.y + rnArgs.height
          /\ rnBounds.y + rnBounds.bottom = 2 * (rnArgs.layoutX + rnArgs.offsetY)
    /\ rnPc = "transform" =>
          rnTransform.text =
             <<"t", "r", "a", "n", "s", "l", "a", "t", "e", "(">>
                \o NumberString(rnBounds.x) \o <<",", " ">>
                \o NumberString(rnBounds.y) \o <<")">>

\* a transform with a negative coordinate, made with a nodeWidth other than the node's
C16_Witness ==
    /\ rnPc = "transform"
    /\ rnTransform.nodeWidth # rnArgs.width
    /\ rnTransform.nodeWidth > 0
    /\ rnBounds.y < 0
    /\ rnArgs.height > 0

(* C17: for every link the connector's start x is not to the right of the *)
(* source's right edge (layoutY + width + offsetX) and its end x is not   *)
(* to the left of the target's left edge (layoutY + offsetX), for every   *)
(* depth and every configured lineOffset.                                  *)
C17_AnchoredInside ==
    lkPc = "points" =>
       /\ lkPoints.sourceX <= lkLink.source.y + lkLink.sourceWidth + lkOffsets.offsetX
       /\ lkPoints.targetX >= lkLink.target.y + lkOffsets.offsetX

(* C19: the configuration is fixed at construction: after any sequence of *)
(* getConfig, updateLanguage and getter calls the configuration object    *)
(* has exactly the field values it had when the constructor returned, and *)
(* the device type never changes.                                          *)
C19_ConfigFixed ==
    /\ cfConfig = cfAtConstruction
    /\ cfConfig.isMobile = cfAtConstruction.isMobile

(* C21: createSiblingNode on a node with a parent puts the new node       *)
(* immediately after that node in the parent's children list, with the    *)
(* node's level and parent; on a node without a parent it returns null    *)
(* and changes nothing.  This also after the node was removed by          *)
(* deleteNode.                                                            *)
C21_SiblingPlaced ==
    [][ (trCall'.op = "createSiblingNode" /\ trCalls' = trCalls + 1) =>
           LET afterNode == trCall'.node
               parent == trHeap[afterNode].parent
           IN  IF parent = Null
               THEN trReturn' = Null /\ trHeap' = trHeap
               ELSE /\ trReturn' # Null
                    /\ trHeap'[trReturn'].level = trHeap[afterNode].level
                    /\ trHeap'[trReturn'].parent = parent
                    /\ \E i \in 1..(Len(trHeap'[parent].children) - 1) :
                          /\ trHeap'[parent].children[i] = afterNode
                          /\ trHeap'[parent].children[i + 1] = trReturn' ]_vars

(* C22: createSubtreeFromMarkdown loses no line: the returned subtree,    *)
(* traversed in pre-order, is exactly the nodes made from the non-blank   *)
(* lines, one per line and in line order; null is returned only for a     *)
(* markdown without a non-blank line.                                      *)
C22_NoLineLost ==
    mdPc = "done" =>
        LET lines == NonBlank(Split(mdArgs.markdown, "\n"))
        IN  /\ (mdResult.rootNode = Null) <=> (Len(lines) = 0)
            /\ mdResult.rootNode # Null =>
                  PreOrder(mdResult.nodes, mdResult.rootNode)
                      = [i \in 1..Len(lines) |-> i]

\* the tree with only pastes of long texts made on it
SpecPaste == TreeInit /\ [][PasteNext]_vars

(* C23: every node created by a clipboard paste, on the plain-text path   *)
(* and on the markdown path, has a text of at most MAX_TEXT_LENGTH        *)
(* characters.                                                            *)
C23_PastedTextBounded ==
    [][ (trCall'.op = "pasteToNode" /\ trCalls' = trCalls + 1) =>
           \A n \in (Len(trHeap) + 1)..Len(trHeap') :
               Len(trHeap'[n].text) <= MAX_TEXT_LENGTH ]_vars

C25_InvalidTextRejected ==
    [][ /\ ( /\ edCall'.op = "saveText" /\ edCalls' = edCalls + 1
             /\ edState.isEditing
             /\ LET newText == Trim(edElements[edState.editElement].textContent)
                IN  \/ Len(newText) = 0
                    \/ Len(newText) > MAX_TEXT_LENGTH
                    \/ \E i \in 1..Len(newText) : newText[i] = "\t" )
           => (edNodes' = edNodes /\ edLog' = edLog)
        /\ \A n \in EditorNodes :
              edNodes'[n] # edNodes[n] => validateText(edNodes'[n]) ]_vars

\* saveText was called on node 2 with a text longer than the limit in its element
C25_Witness ==
    /\ edCall.op = "saveText"
    /\ edCalls = 3
    /\ Len(edElements[2].textContent) > MAX_TEXT_LENGTH
    /\ edNodes[2] = <<"a">>
    /\ edLog = <<>>

===========================================================================
